---- MODULE Spec2Model ----
(***************************************************************************)
(* Verification model of wasteland-cracker: the dictionary chunk and its   *)
(* Hamming-distance iterator (src/src/dict/dict.rs), the string metrics    *)
(* (src/src/utils/str_utils.rs), the injected range RNG                    *)
(* (src/src/utils/rand.rs), the puzzle generator and selection cursor of   *)
(* the game (src/src/game.rs) and the solver (src/src/solver.rs).          *)
(*                                                                         *)
(* A char is a one-character string, a word a sequence of chars.  Indices  *)
(* held in variables are the code's 0-based indices; sequences are 1-based *)
(* so element i of a Vec v is v[i + 1].                                    *)
(***************************************************************************)
EXTENDS Integers, Sequences, FiniteSets, TLC

VARIABLES
    \* EnglishDictChunk
    word_len, word_set,
    \* HammingDistanceIterator
    cmp_word, next_candidate_distance, next_item_candidate_index,
    \* what the last call of next() returned, and every item returned so far
    last_item, yielded,
    \* generate_words: its arguments, its locals and where it stands
    hd_distribution, hd_distribution_tracker, current_hd_distribution_index,
    words, goal_word, gen_pc,
    \* generate_words_from_difficulty: its argument ("none" when generate_words
    \* is called without it)
    difficulty,
    \* obfuscate_words: its arguments (obf_words is its parameter words), its
    \* locals, the index of the loop it is in and where it stands
    obf_words, target_size, remaining_char_count_to_generate, offsets,
    string_builder, obf_i, obf_pc,
    \* the selection cursor: the pane count, the laid words (the parameter words
    \* of refit_selection and try_select_word) with their offsets, the selection,
    \* and of the last cursor operation: its command and the selection that was
    \* handed to refit_selection (the one move_selection returned)
    num_panes, dump_words, word_offsets, selected_chunk,
    last_cmd, moved_chunk, cursor_pc,
    \* run_game: its locals (an Option is a sequence of at most one element,
    \* the timer is "None" or "Some") and where it stands
    solution, denied_selections, accepted_selection, game_over_timer, game_pc,
    \* filter_matching_passwords: the list the first call was given, the guesses
    \* of the calls made, the argument passwords of the last call and the list
    \* it returned, and where the calls stand
    pwd_start, guesses, passwords_arg, passwords, filter_pc,
    \* solver: the locals of its input loop, the character getch returned in the
    \* last pass ("none" when it returned none) and where the loop stands
    input_passwords, number_input_buffers, filtered_input_passwords, menu_cursor,
    refresh_filtered_passwords, clear_on_next_number_input, ch, solver_pc,
    \* solver before its loop: the lines of the password file (the parameter
    \* pwds of validate_input_passwords), what validate_input_passwords
    \* returned, the parameter guess_args, the local known_guesses of line 73
    \* (start_known_guesses) and where the start-up stands
    pwds, validation, guess_args, start_known_guesses, start_pc,
    \* the string metrics called on their own: the arguments a and b, what
    \* matching_char_count_ignore_case and hamming_dist_ignore_case returned
    \* for them ("none" before the call) and where the calls stand
    str_a, str_b, str_matching, str_hamming, str_pc,
    \* simple_shuffle as run_game calls it: the words generate_words returned
    \* (run_game's unshuffled_words), the vector v being shuffled and the
    \* number of swaps made
    unshuffled_words, shuffle_v, shuffle_i

dictVars == <<word_len, word_set>>
iterVars == <<cmp_word, next_candidate_distance, next_item_candidate_index,
              last_item, yielded>>

genVars == <<hd_distribution, hd_distribution_tracker, current_hd_distribution_index,
             words, goal_word, gen_pc, difficulty>>

obfVars == <<obf_words, target_size, remaining_char_count_to_generate, offsets,
             string_builder, obf_i, obf_pc>>

layoutVars == <<num_panes, dump_words, word_offsets>>
cursorVars == <<selected_chunk, last_cmd, moved_chunk, cursor_pc>>

gameVars == <<solution, denied_selections, accepted_selection, game_over_timer, game_pc>>

filterVars == <<pwd_start, guesses, passwords_arg, passwords, filter_pc>>

loopVars == <<input_passwords, number_input_buffers, filtered_input_passwords,
              menu_cursor, refresh_filtered_passwords, clear_on_next_number_input,
              ch, solver_pc>>

loopLocals == <<number_input_buffers, filtered_input_passwords, menu_cursor,
                refresh_filtered_passwords, clear_on_next_number_input, ch, solver_pc>>

startVars == <<pwds, validation, guess_args, start_known_guesses, start_pc>>

strVars == <<str_a, str_b, str_matching, str_hamming, str_pc>>

shuffleVars == <<unshuffled_words, shuffle_v, shuffle_i>>

vars == <<dictVars, iterVars, genVars, obfVars, layoutVars, cursorVars, gameVars,
          filterVars, loopVars, startVars, strVars, shuffleVars>>

\* what the steps of one component leave alone
solverSide == <<filterVars, loopVars, startVars, strVars>>
outsideIter == <<genVars, obfVars, layoutVars, cursorVars, gameVars, solverSide, shuffleVars>>
outsideGen == <<obfVars, layoutVars, cursorVars, gameVars, solverSide, shuffleVars>>
outsideObf == <<dictVars, iterVars, genVars, layoutVars, cursorVars, gameVars, solverSide, shuffleVars>>
outsideCursor == <<dictVars, iterVars, genVars, obfVars, gameVars, solverSide, shuffleVars>>
outsideShuffle == <<dictVars, iterVars, genVars, obfVars, last_cmd, moved_chunk, cursor_pc,
                    solverSide>>
outsideGame == <<outsideShuffle, shuffleVars>>
gameSide == <<dictVars, iterVars, genVars, obfVars, layoutVars, cursorVars, gameVars,
              shuffleVars>>
outsideFilter == <<gameSide, loopVars, startVars, strVars>>
outsideLoop == <<gameSide, filterVars, startVars, strVars>>
outsideStart == <<iterVars, genVars, obfVars, layoutVars, cursorVars, gameVars, filterVars,
                  strVars, shuffleVars>>
outsideStr == <<gameSide, filterVars, loopVars, startVars>>

----------------------------------------------------------------------------
(* Bounds of the model *)

\* the longest chunk the iterator is run on
MaxChunk == 3
\* how many words of BaseWords the chunks are drawn from
PoolSize == 6
\* generate_words runs on the longer contiguous runs of the first MaxGenChunk
\* BaseWords and on the empty chunk
MaxGenChunk == 7
\* the most decoys a distance profile of the model asks for, all tiers together
MaxDecoys == 5
\* the most words obfuscate_words is given
MaxObfWords == 3
\* the most filler characters obfuscate_words is asked for
MaxFiller == 3
\* the most words laid into the hex dump the cursor moves over
MaxLaidWords == 2
\* the most panes move_selection is called with
MaxPanes == 3
\* the most filler characters between two neighbouring laid words
MaxGap == 1

\* the longest candidate list filter_matching_passwords is called on
MaxCandidates == 3
\* the most arguments after the password file on the command line
MaxGuessArgs == 4
\* the longest word the string metrics are called on
MaxStrLen == 3

\* const MAX_ATTEMPTS: usize = 4
MAX_ATTEMPTS == 4

\* const NUM_SWAPS: usize = 100, scaled to the short lists of the model
NUM_SWAPS == 3

----------------------------------------------------------------------------
(* Characters and words *)

UpperCase == <<"A","B","C","D","E","F","G","H","I","J","K","L","M",
               "N","O","P","Q","R","S","T","U","V","W","X","Y","Z">>
LowerCase == <<"a","b","c","d","e","f","g","h","i","j","k","l","m",
               "n","o","p","q","r","s","t","u","v","w","x","y","z">>

\* the lower-case letter of every upper-case one
LowerOf == [c \in {UpperCase[i] : i \in 1..Len(UpperCase)} |->
               LowerCase[CHOOSE i \in 1..Len(UpperCase) : UpperCase[i] = c]]

\* a comparison that does not fold the case
to_ascii_lowercase_asIs(c) == c

\* char::to_ascii_lowercase: 'A'..'Z' map to 'a'..'z', everything else to itself
to_ascii_lowercase(c) == IF c \in DOMAIN LowerOf THEN LowerOf[c] ELSE c

chars_eq_ignore_case(a, b) == to_ascii_lowercase(a) = to_ascii_lowercase(b)

\* a.chars().zip(b.chars()).filter(chars_eq_ignore_case).count()
\* (the caller-visible assert_eq!(a.len(), b.len()) is LenMismatch below)
matching_char_count_ignore_case(a, b) ==
    Cardinality({i \in 1..(IF Len(a) < Len(b) THEN Len(a) ELSE Len(b)) :
                    chars_eq_ignore_case(a[i], b[i])})

hamming_dist_ignore_case(a, b) == Len(a) - matching_char_count_ignore_case(a, b)

\* the assert_eq! at the head of both metrics fails
LenMismatch(a, b) == Len(a) # Len(b)

----------------------------------------------------------------------------
(* The words the model's chunks are made of: the words of the two unit     *)
(* tests (word length 4), with one entry in another letter case.           *)

BaseWords == <<
    <<"p","e","n","s">>, <<"p","a","n","s">>, <<"P","e","N","s">>,
    <<"p","i","l","s">>, <<"d","u","l","l">>, <<"a","d","d","s">>,
    <<"p","i","n","s">>, <<"p","e","n","t">>, <<"m","i","s","s">> >>

Pool == {BaseWords[i] : i \in 1..PoolSize}

\* every sequence over S of length at most n
SeqsUpTo(S, n) == UNION {[1..k -> S] : k \in 0..n}

----------------------------------------------------------------------------
(* EnglishDictChunk and HammingDistanceIterator *)

\* EnglishDictChunk::new_mock / load: the chunk's words all have word_len chars
ChunkOk(wl, ws) == \A i \in 1..Len(ws) : Len(ws[i]) = wl

\* a scan that begins at distance 0 instead of 1
NewIterator_from0(word) ==
    [cmp_word |-> word, next_candidate_distance |-> 0, next_item_candidate_index |-> 0]

\* get_hamming_distance_sorted_words: a fresh iterator
NewIterator(word) ==
    [cmp_word |-> word, next_candidate_distance |-> 1, next_item_candidate_index |-> 0]

\* a scan whose loop stops one distance early (d < word_len)
RECURSIVE IterScan_short(_, _, _, _, _)
IterScan_short(wl, ws, cmp, d, i) ==
    IF ~(d < wl)
    THEN [kind |-> "None", d |-> d, i |-> i]
    ELSE LET wrapped == (i + 1 >= Len(ws))
             ni == IF wrapped THEN 0 ELSE i + 1
             nd == IF wrapped THEN d + 1 ELSE d
         IN  IF i >= Len(ws)
             THEN [kind |-> "Panic", d |-> nd, i |-> ni]
             ELSE IF hamming_dist_ignore_case(ws[i + 1], cmp) = d
                  THEN [kind |-> "Some", d |-> nd, i |-> ni, index |-> i,
                        word |-> ws[i + 1],
                        dist |-> hamming_dist_ignore_case(ws[i + 1], cmp)]
                  ELSE IterScan_short(wl, ws, cmp, nd, ni)

\* a scan that starts over at distance 1 once the distance has passed word_len
RECURSIVE IterScan_restart(_, _, _, _, _)
IterScan_restart(wl, ws, cmp, d, i) ==
    IF ~(d <= wl)
    THEN [kind |-> "None", d |-> 1, i |-> 0]
    ELSE LET wrapped == (i + 1 >= Len(ws))
             ni == IF wrapped THEN 0 ELSE i + 1
             nd == IF wrapped THEN d + 1 ELSE d
         IN  IF i >= Len(ws)
             THEN [kind |-> "Panic", d |-> nd, i |-> ni]
             ELSE IF hamming_dist_ignore_case(ws[i + 1], cmp) = d
                  THEN [kind |-> "Some", d |-> nd, i |-> ni, index |-> i,
                        word |-> ws[i + 1],
                        dist |-> hamming_dist_ignore_case(ws[i + 1], cmp)]
                  ELSE IterScan_restart(wl, ws, cmp, nd, ni)

\* One call of HammingDistanceIterator::next, from distance d and index i:
\* the while loop runs until a candidate at exactly the current distance is
\* found (Some), the distance passes word_len (None), or word_set[candidate_index]
\* is out of bounds (an empty word_set: the index panics).
RECURSIVE IterScan(_, _, _, _, _)
IterScan(wl, ws, cmp, d, i) ==
    IF ~(d <= wl)
    THEN [kind |-> "None", d |-> d, i |-> i]
    ELSE LET candidate_index == i
             wrapped == (i + 1 >= Len(ws))
             ni == IF wrapped THEN 0 ELSE i + 1
             nd == IF wrapped THEN d + 1 ELSE d
         IN  IF candidate_index >= Len(ws)
             THEN [kind |-> "Panic", d |-> nd, i |-> ni]
             ELSE LET candidate == ws[candidate_index + 1]
                      candidate_hamming_distance == hamming_dist_ignore_case(candidate, cmp)
                  IN  IF candidate_hamming_distance = d
                      THEN [kind |-> "Some", d |-> nd, i |-> ni,
                            index |-> candidate_index, word |-> candidate,
                            dist |-> candidate_hamming_distance]
                      ELSE IterScan(wl, ws, cmp, nd, ni)

IteratorNext == IterScan(word_len, word_set, cmp_word,
                         next_candidate_distance, next_item_candidate_index)

\* the item a Some carries, with the chunk index it was read from
Item(r) == [index |-> r.index, word |-> r.word, dist |-> r.dist]

\* the caller calls next() on the iterator
Next_call ==
    /\ last_item # "Panic"
    /\ LET r == IteratorNext
       IN  /\ next_candidate_distance' = r.d
           /\ next_item_candidate_index' = r.i
           /\ last_item' = r.kind
           /\ yielded' = IF r.kind = "Some" THEN Append(yielded, Item(r)) ELSE yielded
    /\ UNCHANGED <<dictVars, cmp_word>>
    /\ UNCHANGED outsideIter

\* no chunk is loaded
DictIdle ==
    /\ word_len = 0
    /\ word_set = <<>>

\* simple_shuffle is not called
ShuffleIdle ==
    /\ unshuffled_words = <<>>
    /\ shuffle_v = <<>>
    /\ shuffle_i = 0

\* no iterator exists
IterIdle ==
    /\ cmp_word = <<>>
    /\ next_candidate_distance = 0
    /\ next_item_candidate_index = 0
    /\ last_item = "Fresh"
    /\ yielded = <<>>

\* generate_words is not running
GenIdle ==
    /\ hd_distribution = <<>>
    /\ hd_distribution_tracker = <<>>
    /\ current_hd_distribution_index = 0
    /\ words = <<>>
    /\ goal_word = <<>>
    /\ gen_pc = "idle"
    /\ difficulty = "none"

\* obfuscate_words is not running
ObfIdle ==
    /\ obf_words = <<>>
    /\ target_size = 0
    /\ remaining_char_count_to_generate = 0
    /\ offsets = <<>>
    /\ string_builder = <<>>
    /\ obf_i = 0
    /\ obf_pc = "idle"

\* no hex dump and no cursor
NoChunk == [pane_num |-> 0, row_num |-> 0, col_start |-> 0, len |-> 1]

CursorIdle ==
    /\ num_panes = 0
    /\ dump_words = <<>>
    /\ word_offsets = <<>>
    /\ selected_chunk = NoChunk
    /\ last_cmd = "none"
    /\ moved_chunk = NoChunk
    /\ cursor_pc = "idle"

GameIdle ==
    /\ solution = <<>>
    /\ denied_selections = <<>>
    /\ accepted_selection = <<>>
    /\ game_over_timer = "None"
    /\ game_pc = "idle"

FilterIdle ==
    /\ pwd_start = <<>>
    /\ guesses = <<>>
    /\ passwords_arg = <<>>
    /\ passwords = <<>>
    /\ filter_pc = "idle"

LoopIdle ==
    /\ input_passwords = <<>>
    /\ number_input_buffers = <<>>
    /\ filtered_input_passwords = <<>>
    /\ menu_cursor = 0
    /\ refresh_filtered_passwords = FALSE
    /\ clear_on_next_number_input = FALSE
    /\ ch = "none"
    /\ solver_pc = "idle"

\* solver has not been called
NoResult == [kind |-> "none", pwds |-> <<>>, dict |-> <<>>]

StartIdle ==
    /\ pwds = <<>>
    /\ validation = NoResult
    /\ guess_args = <<>>
    /\ start_known_guesses = <<>>
    /\ start_pc = "idle"

\* the string metrics are not called on their own
StrIdle ==
    /\ str_a = <<>>
    /\ str_b = <<>>
    /\ str_matching = "none"
    /\ str_hamming = "none"
    /\ str_pc = "idle"

\* no part of the solver runs
SolverIdle == FilterIdle /\ LoopIdle /\ StartIdle

\* a chunk and a reference word of the chunk's length, and a fresh iterator
InitIter ==
    /\ StrIdle /\ ShuffleIdle
    /\ word_len = Len(BaseWords[1])
    /\ word_set \in SeqsUpTo(Pool, MaxChunk)
    /\ cmp_word \in Pool
    /\ next_candidate_distance = NewIterator(cmp_word).next_candidate_distance
    /\ next_item_candidate_index = NewIterator(cmp_word).next_item_candidate_index
    /\ last_item = "Fresh"
    /\ yielded = <<>>
    /\ GenIdle
    /\ ObfIdle
    /\ CursorIdle
    /\ GameIdle
    /\ SolverIdle

NextIter == Next_call

SpecIter == InitIter /\ [][NextIter]_vars

----------------------------------------------------------------------------
(* The string metrics, called on two words *)

\* the characters of the words the metrics are called on in the model: a
\* letter in both cases, another letter and a character that is no letter
StrChars == {"a", "A", "b", "-"}

InitStr ==
    /\ ShuffleIdle
    /\ DictIdle /\ IterIdle /\ GenIdle /\ ObfIdle /\ CursorIdle /\ GameIdle
    /\ FilterIdle /\ LoopIdle /\ StartIdle
    /\ str_a \in SeqsUpTo(StrChars, MaxStrLen)
    /\ str_b \in SeqsUpTo(StrChars, MaxStrLen)
    /\ str_matching = "none"
    /\ str_hamming = "none"
    /\ str_pc = "start"

\* matching_char_count_ignore_case(a, b)
Str_matching ==
    /\ str_pc = "start"
    /\ IF LenMismatch(str_a, str_b)
       THEN /\ str_pc' = "panic"
            /\ UNCHANGED str_matching
       ELSE /\ str_matching' = matching_char_count_ignore_case(str_a, str_b)
            /\ str_pc' = "matched"
    /\ UNCHANGED <<str_a, str_b, str_hamming>>
    /\ UNCHANGED outsideStr

\* hamming_dist_ignore_case(a, b)
Str_hamming ==
    /\ str_pc = "matched"
    /\ IF LenMismatch(str_a, str_b)
       THEN /\ str_pc' = "panic"
            /\ UNCHANGED str_hamming
       ELSE /\ str_hamming' = hamming_dist_ignore_case(str_a, str_b)
            /\ str_pc' = "done"
    /\ UNCHANGED <<str_a, str_b, str_matching>>
    /\ UNCHANGED outsideStr

NextStr ==
    \/ Str_matching
    \/ Str_hamming

SpecStr == InitStr /\ [][NextStr]_vars

----------------------------------------------------------------------------
(* RangeRng and generate_words *)

\* RangeRng::gen_range(lower, upper): any value of [lower, upper); the set is
\* empty when lower >= upper, where ThreadRng and the test doubles panic
gen_range(lower, upper) == lower..(upper - 1)

\* seq.iter().fold(0, |acc, e| acc + e.num_words)
RECURSIVE SumNumWords(_)
SumNumWords(dist) ==
    IF dist = <<>> THEN 0 ELSE dist[1].num_words + SumNumWords(Tail(dist))

total_words_in_distribution == SumNumWords(hd_distribution)

\* a comparison that also takes a word one short of the tier's distance
TierAccepts_offByOne(hamming_distance, entry) == hamming_distance + 1 >= entry.hamming_distance

\* a comparison that refuses a word exactly at the tier's distance
TierAccepts_strict(hamming_distance, entry) == hamming_distance > entry.hamming_distance

\* a comparison that also tries the candidate against the tiers still to come
TierAccepts_laterTier(hamming_distance, entry) ==
    \E i \in (current_hd_distribution_index + 1)..Len(hd_distribution_tracker) :
        hamming_distance >= hd_distribution_tracker[i].hamming_distance

\* if hamming_distance >= current_hd_distribution_entry.hamming_distance
TierAccepts(hamming_distance, entry) == hamming_distance >= entry.hamming_distance

\* let goal_word = dict_chunk.get_random_word(rng), words.push(goal_word), the
\* tracker copy and the fresh sorted iterator; select_rand panics on an empty chunk
Generate_start ==
    /\ gen_pc = "start"
    /\ IF gen_range(0, Len(word_set)) = {}
       THEN /\ gen_pc' = "panic"
            /\ UNCHANGED <<iterVars, hd_distribution_tracker,
                           current_hd_distribution_index, words, goal_word>>
       ELSE \E index \in gen_range(0, Len(word_set)) :
              LET goal == word_set[index + 1]
                  it == NewIterator(goal)
              IN  /\ goal_word' = goal
                  /\ words' = <<goal>>
                  /\ current_hd_distribution_index' = 0
                  /\ hd_distribution_tracker' = hd_distribution
                  /\ cmp_word' = it.cmp_word
                  /\ next_candidate_distance' = it.next_candidate_distance
                  /\ next_item_candidate_index' = it.next_item_candidate_index
                  /\ last_item' = "Fresh"
                  /\ yielded' = <<>>
                  /\ gen_pc' = "loop"
    /\ UNCHANGED <<dictVars, difficulty, hd_distribution>>
    /\ UNCHANGED outsideGen

\* one iteration of the while loop: the assert_ne!, one next() of the iterator
\* (None breaks out), and the push and tier bookkeeping for an accepted word
Generate_step ==
    /\ gen_pc = "loop"
    /\ current_hd_distribution_index < Len(hd_distribution_tracker)
    /\ LET k == current_hd_distribution_index + 1
           current_hd_distribution_entry == hd_distribution_tracker[k]
           r == IteratorNext
       IN  IF current_hd_distribution_entry.num_words = 0 \/ r.kind = "Panic"
           THEN /\ gen_pc' = "panic"
                /\ UNCHANGED <<iterVars, hd_distribution_tracker,
                               current_hd_distribution_index, words>>
           ELSE /\ next_candidate_distance' = r.d
                /\ next_item_candidate_index' = r.i
                /\ last_item' = r.kind
                /\ yielded' = IF r.kind = "Some" THEN Append(yielded, Item(r)) ELSE yielded
                /\ UNCHANGED cmp_word
                /\ IF r.kind = "None"
                   THEN /\ gen_pc' = "break"
                        /\ UNCHANGED <<hd_distribution_tracker,
                                       current_hd_distribution_index, words>>
                   ELSE IF TierAccepts(r.dist, current_hd_distribution_entry)
                   THEN LET num_words == current_hd_distribution_entry.num_words - 1
                        IN  /\ hd_distribution_tracker' =
                                  [hd_distribution_tracker EXCEPT ![k].num_words = num_words]
                            /\ words' = Append(words, r.word)
                            /\ current_hd_distribution_index' =
                                  IF num_words = 0
                                  THEN current_hd_distribution_index + 1
                                  ELSE current_hd_distribution_index
                            /\ gen_pc' = "loop"
                   ELSE /\ gen_pc' = "loop"
                        /\ UNCHANGED <<hd_distribution_tracker,
                                       current_hd_distribution_index, words>>
    /\ UNCHANGED <<dictVars, difficulty, hd_distribution, goal_word>>
    /\ UNCHANGED outsideGen

\* a generate_words without the size assertion: it returns what it has
Generate_finish_noAssert ==
    /\ \/ gen_pc = "break"
       \/ /\ gen_pc = "loop"
          /\ ~(current_hd_distribution_index < Len(hd_distribution_tracker))
    /\ gen_pc' = "done"
    /\ UNCHANGED <<dictVars, iterVars, difficulty, hd_distribution, hd_distribution_tracker,
                   current_hd_distribution_index, words, goal_word>>
    /\ UNCHANGED outsideGen

\* the loop is over (every tier filled, or the break): the size assertion, then
\* the return of (words, goal_word)
Generate_finish ==
    /\ \/ gen_pc = "break"
       \/ /\ gen_pc = "loop"
          /\ ~(current_hd_distribution_index < Len(hd_distribution_tracker))
    /\ gen_pc' = IF Len(words) = total_words_in_distribution + 1 THEN "done" ELSE "panic"
    /\ UNCHANGED <<dictVars, iterVars, difficulty, hd_distribution, hd_distribution_tracker,
                   current_hd_distribution_index, words, goal_word>>
    /\ UNCHANGED outsideGen

\* the empty chunk and the contiguous runs of n - 3 and more of the first n
\* words of seq (four decoys and the goal need five entries)
Runs(seq, n) ==
    {<<>>} \cup {r \in {SubSeq(seq, i, j) : i \in 1..n, j \in 1..n} : Len(r) >= n - 3}

\* [HDDEntry; 4] from four counts and four distances
Distribution(counts, distances) ==
    [i \in 1..4 |-> [num_words |-> counts[i], hamming_distance |-> distances[i]]]

\* the profiles of the model: every tier asks for one or two words, MaxDecoys
\* at most in all; the distances do not decrease from tier to tier, as in every
\* row of get_hamming_distance_distribution, or tier 0 alone asks for more than
\* the three tiers after it
Profiles ==
    {Distribution(c, t) :
        c \in {c \in [1..4 -> 1..2] : c[1] + c[2] + c[3] + c[4] <= MaxDecoys},
        t \in {t \in [1..4 -> 1..Len(BaseWords[1])] :
                  /\ t[2] <= t[3] /\ t[3] <= t[4]
                  /\ (t[1] <= t[2] \/ t[2] = t[4])}}

InitGen ==
    /\ StrIdle /\ ShuffleIdle
    /\ word_len = Len(BaseWords[1])
    /\ word_set \in Runs(BaseWords, MaxGenChunk)
    /\ IterIdle
    /\ hd_distribution \in Profiles
    /\ hd_distribution_tracker = <<>>
    /\ current_hd_distribution_index = 0
    /\ words = <<>>
    /\ goal_word = <<>>
    /\ gen_pc = "start"
    /\ difficulty = "none"
    /\ ObfIdle
    /\ CursorIdle
    /\ GameIdle
    /\ SolverIdle

NextGen ==
    \/ Generate_start
    \/ Generate_step
    \/ Generate_finish

SpecGen == InitGen /\ [][NextGen]_vars

----------------------------------------------------------------------------
(* obfuscate_words *)

\* words.iter().fold(0, |acc, word| acc + word.len())
RECURSIVE SumLen(_)
SumLen(ws) == IF ws = <<>> THEN 0 ELSE Len(ws[1]) + SumLen(Tail(ws))

initial_length_from_words == SumLen(obf_words)

\* the first loop of the offsets block: for every word, every offset so far
\* grows by the word's length and a 0 is inserted at the front
RECURSIVE PackOffsets(_)
PackOffsets(ws) ==
    IF ws = <<>> THEN <<>>
    ELSE LET before == PackOffsets(SubSeq(ws, 1, Len(ws) - 1))
             word == ws[Len(ws)]
         IN  <<0>> \o [k \in 1..Len(before) |-> before[k] + Len(word)]

\* a bump of the offsets before offsets_to_bump_start instead of those from it on
BumpFrom_upTo(offs, offsets_to_bump_start) ==
    [k \in 1..Len(offs) |-> IF k - 1 < offsets_to_bump_start THEN offs[k] + 1 ELSE offs[k]]

\* for i in offsets_to_bump_start..offsets.len() { offsets[i] += 1 }
BumpFrom(offs, offsets_to_bump_start) ==
    [k \in 1..Len(offs) |-> IF k - 1 >= offsets_to_bump_start THEN offs[k] + 1 ELSE offs[k]]

\* the characters '#' (35) to '-' (45), the values of gen_range('#', '.')
GarbageChars == <<"#", "$", "%", "&", "'", "(", ")", "*", "+", ",", "-">>

\* value as u8 as char, for a value of gen_range('#' as usize, '.' as usize)
GarbageChar(value) == GarbageChars[value - 35 + 1]

\* the values the model lets the RNG return for a garbage character: the two
\* ends of the range
GarbageValues == {v \in gen_range(35, 46) : v = 35 \/ v = 45}

\* a filler loop that runs target_size times
FillCount_target(target, remaining) == target

\* the number of garbage characters pushed: 0..remaining_char_count_to_generate
FillCount(target, remaining) == remaining

\* String::insert_str(idx, s); idx > len() panics (InsertPanics)
insert_str(sb, idx, string) ==
    SubSeq(sb, 1, idx) \o string \o SubSeq(sb, idx + 1, Len(sb))

InsertPanics(sb, idx) == idx > Len(sb)

\* the subtraction target_size - initial_length_from_words and the packing of
\* the offsets.  A target_size below the words' length underflows the usize:
\* the checked build panics, the unchecked one wraps to a count near 2^64 that
\* the loops after it never finish.
Obfuscate_start ==
    /\ obf_pc = "start"
    /\ IF target_size < initial_length_from_words
       THEN /\ obf_pc' \in {"panic", "diverge"}
            /\ UNCHANGED <<remaining_char_count_to_generate, offsets, obf_i>>
       ELSE /\ remaining_char_count_to_generate' = target_size - initial_length_from_words
            /\ offsets' = PackOffsets(obf_words)
            /\ obf_i' = 0
            /\ obf_pc' = "bump"
    /\ UNCHANGED <<obf_words, target_size, string_builder>>
    /\ UNCHANGED outsideObf

\* one iteration of for _ in 0..remaining_char_count_to_generate
Obfuscate_bump ==
    /\ obf_pc = "bump"
    /\ obf_i < remaining_char_count_to_generate
    /\ \E offsets_to_bump_start \in gen_range(0, Len(offsets) + 1) :
          offsets' = BumpFrom(offsets, offsets_to_bump_start)
    /\ obf_i' = obf_i + 1
    /\ UNCHANGED <<obf_words, target_size, remaining_char_count_to_generate,
                   string_builder, obf_pc>>
    /\ UNCHANGED outsideObf

\* the offsets block is done: String::with_capacity(target_size)
Obfuscate_builder ==
    /\ obf_pc = "bump"
    /\ ~(obf_i < remaining_char_count_to_generate)
    /\ string_builder' = <<>>
    /\ obf_i' = 0
    /\ obf_pc' = "fill"
    /\ UNCHANGED <<obf_words, target_size, remaining_char_count_to_generate, offsets>>
    /\ UNCHANGED outsideObf

\* one iteration of the garbage loop
Obfuscate_fill ==
    /\ obf_pc = "fill"
    /\ obf_i < FillCount(target_size, remaining_char_count_to_generate)
    /\ \E value \in GarbageValues :
          string_builder' = Append(string_builder, GarbageChar(value))
    /\ obf_i' = obf_i + 1
    /\ UNCHANGED <<obf_words, target_size, remaining_char_count_to_generate,
                   offsets, obf_pc>>
    /\ UNCHANGED outsideObf

\* the garbage loop is done: on to the words
Obfuscate_filled ==
    /\ obf_pc = "fill"
    /\ ~(obf_i < FillCount(target_size, remaining_char_count_to_generate))
    /\ obf_i' = 0
    /\ obf_pc' = "insert"
    /\ UNCHANGED <<obf_words, target_size, remaining_char_count_to_generate,
                   offsets, string_builder>>
    /\ UNCHANGED outsideObf

\* one iteration of for (word, offset) in words.iter().zip(offsets.iter())
Obfuscate_insert ==
    /\ obf_pc = "insert"
    /\ obf_i < Len(obf_words)
    /\ LET word == obf_words[obf_i + 1]
           offset == offsets[obf_i + 1]
       IN  IF InsertPanics(string_builder, offset)
           THEN /\ obf_pc' = "panic"
                /\ UNCHANGED <<string_builder, obf_i>>
           ELSE /\ string_builder' = insert_str(string_builder, offset, word)
                /\ obf_i' = obf_i + 1
                /\ UNCHANGED obf_pc
    /\ UNCHANGED <<obf_words, target_size, remaining_char_count_to_generate, offsets>>
    /\ UNCHANGED outsideObf

\* the return of (string_builder, offsets)
Obfuscate_return ==
    /\ obf_pc = "insert"
    /\ ~(obf_i < Len(obf_words))
    /\ obf_pc' = "done"
    /\ UNCHANGED <<obf_words, target_size, remaining_char_count_to_generate,
                   offsets, string_builder, obf_i>>
    /\ UNCHANGED outsideObf

\* the words obfuscate_words is given in the model: two of one length and a
\* shorter one
ObfPool == {<<"a", "b">>, <<"c", "d">>, <<"e">>}

InitObf ==
    /\ StrIdle /\ ShuffleIdle
    /\ DictIdle
    /\ IterIdle
    /\ GenIdle
    /\ obf_words \in SeqsUpTo(ObfPool, MaxObfWords)
    /\ target_size \in 0..(SumLen(obf_words) + MaxFiller)
    /\ target_size + 1 >= SumLen(obf_words)
    /\ remaining_char_count_to_generate = 0
    /\ offsets = <<>>
    /\ string_builder = <<>>
    /\ obf_i = 0
    /\ obf_pc = "start"
    /\ CursorIdle
    /\ GameIdle
    /\ SolverIdle

NextObf ==
    \/ Obfuscate_start
    \/ Obfuscate_bump
    \/ Obfuscate_builder
    \/ Obfuscate_fill
    \/ Obfuscate_filled
    \/ Obfuscate_insert
    \/ Obfuscate_return

SpecObf == InitObf /\ [][NextObf]_vars

----------------------------------------------------------------------------
(* The selection cursor: move_selection, refit_selection, try_select_word *)

\* HexDumpPane of the cursor tests: 4 characters per row, 3 rows per pane
dump_width == 4
dump_height == 3

\* HexDumpPane::max_bytes_in_pane
max_bytes_in_pane == dump_width * dump_height

Movement == {"Left", "Right", "Up", "Down"}

SelectedChunk(pane_num, row_num, col_start, len) ==
    [pane_num |-> pane_num, row_num |-> row_num, col_start |-> col_start, len |-> len]

\* cursor_index of refit_selection and try_select_word
cursor_index(selection) ==
    selection.pane_num * max_bytes_in_pane + selection.row_num * dump_width
        + selection.col_start

\* a move_selection whose Right steps one cell, whatever the selection length
move_selection_rightByOne(selection, movement, panes) ==
    LET col_move == CASE movement = "Left" -> -1
                      [] movement = "Right" -> 1
                      [] OTHER -> 0
        row_move == CASE movement = "Down" -> 1
                      [] movement = "Up" -> -1
                      [] OTHER -> 0
        col0 == col_move + selection.col_start
        row0 == row_move + selection.row_num
        pane1 == IF col0 >= dump_width THEN selection.pane_num + 1
                 ELSE IF col0 < 0 THEN selection.pane_num - 1 ELSE selection.pane_num
    IN  SelectedChunk(IF pane1 >= panes THEN 0 ELSE IF pane1 < 0 THEN 1 ELSE pane1,
                      IF row0 >= dump_height THEN 0
                      ELSE IF row0 < 0 THEN dump_height - 1 ELSE row0,
                      IF col0 >= dump_width THEN 0
                      ELSE IF col0 < 0 THEN dump_width - 1 ELSE col0,
                      1)

\* a move_selection that wraps below pane 0 to the last pane, panes - 1
move_selection_lastPane(selection, movement, panes) ==
    LET col_move == CASE movement = "Left" -> -1
                      [] movement = "Right" -> selection.len
                      [] OTHER -> 0
        row_move == CASE movement = "Down" -> 1
                      [] movement = "Up" -> -1
                      [] OTHER -> 0
        col0 == col_move + selection.col_start
        row0 == row_move + selection.row_num
        pane1 == IF col0 >= dump_width THEN selection.pane_num + 1
                 ELSE IF col0 < 0 THEN selection.pane_num - 1 ELSE selection.pane_num
    IN  SelectedChunk(IF pane1 >= panes THEN 0 ELSE IF pane1 < 0 THEN panes - 1 ELSE pane1,
                      IF row0 >= dump_height THEN 0
                      ELSE IF row0 < 0 THEN dump_height - 1 ELSE row0,
                      IF col0 >= dump_width THEN 0
                      ELSE IF col0 < 0 THEN dump_width - 1 ELSE col0,
                      1)

\* a move_selection that keeps the length of the selection it was given
move_selection_keepLen(selection, movement, panes) ==
    LET col_move == CASE movement = "Left" -> -1
                      [] movement = "Right" -> selection.len
                      [] OTHER -> 0
        row_move == CASE movement = "Down" -> 1
                      [] movement = "Up" -> -1
                      [] OTHER -> 0
        col0 == col_move + selection.col_start
        row0 == row_move + selection.row_num
        pane1 == IF col0 >= dump_width THEN selection.pane_num + 1
                 ELSE IF col0 < 0 THEN selection.pane_num - 1 ELSE selection.pane_num
    IN  SelectedChunk(IF pane1 >= panes THEN 0 ELSE IF pane1 < 0 THEN 1 ELSE pane1,
                      IF row0 >= dump_height THEN 0
                      ELSE IF row0 < 0 THEN dump_height - 1 ELSE row0,
                      IF col0 >= dump_width THEN 0
                      ELSE IF col0 < 0 THEN dump_width - 1 ELSE col0,
                      selection.len)

\* a move_selection whose Up stops at row 0 instead of wrapping
move_selection_noWrap(selection, movement, panes) ==
    LET col_move == CASE movement = "Left" -> -1
                      [] movement = "Right" -> selection.len
                      [] OTHER -> 0
        row_move == CASE movement = "Down" -> 1
                      [] movement = "Up" -> -1
                      [] OTHER -> 0
        col0 == col_move + selection.col_start
        row0 == row_move + selection.row_num
        pane1 == IF col0 >= dump_width THEN selection.pane_num + 1
                 ELSE IF col0 < 0 THEN selection.pane_num - 1 ELSE selection.pane_num
    IN  SelectedChunk(IF pane1 >= panes THEN 0 ELSE IF pane1 < 0 THEN 1 ELSE pane1,
                      IF row0 >= dump_height THEN 0 ELSE IF row0 < 0 THEN 0 ELSE row0,
                      IF col0 >= dump_width THEN 0
                      ELSE IF col0 < 0 THEN dump_width - 1 ELSE col0,
                      1)

\* move_selection(selection, movement, hex_dump_pane_dimensions, num_panes)
move_selection(selection, movement, panes) ==
    LET col_move == CASE movement = "Down" -> 0
                      [] movement = "Up" -> 0
                      [] movement = "Left" -> -1
                      [] movement = "Right" -> selection.len
        row_move == CASE movement = "Down" -> 1
                      [] movement = "Up" -> -1
                      [] movement = "Left" -> 0
                      [] movement = "Right" -> 0
        \* naively update the row and col with our movement
        col0 == col_move + selection.col_start
        row0 == row_move + selection.row_num
        pane0 == selection.pane_num
        \* moved from one pane to another, laterally across the columns of a row
        next_col == IF col0 >= dump_width THEN 0
                    ELSE IF col0 < 0 THEN dump_width - 1 ELSE col0
        pane1 == IF col0 >= dump_width THEN pane0 + 1
                 ELSE IF col0 < 0 THEN pane0 - 1 ELSE pane0
        \* moved to a row outside of the pane: wrap around in the same pane
        next_row == IF row0 >= dump_height THEN 0
                    ELSE IF row0 < 0 THEN dump_height - 1 ELSE row0
        \* moved to a pane outside of the hex dump
        next_pane == IF pane1 >= panes THEN 0
                     ELSE IF pane1 < 0 THEN 1 ELSE pane1
    IN  SelectedChunk(next_pane, next_row, next_col, 1)

\* word_ranges of refit_selection: (offset, offset + len) of the k-th pair
word_range(ws, offs, k) == <<offs[k], offs[k] + Len(ws[k])>>

\* the pairs (1-based positions) whose range holds the index
Containing(ws, offs, index) ==
    {k \in 1..Len(ws) : index >= word_range(ws, offs, k)[1]
                        /\ index < word_range(ws, offs, k)[2]}

\* the pair the for loops of refit_selection and try_select_word stop at: the
\* first one in list order whose range holds the index
FirstContaining(ws, offs, index) ==
    CHOOSE k \in Containing(ws, offs, index) :
        \A j \in Containing(ws, offs, index) : k <= j

\* The usize arithmetic of refit_selection underflows: pane_num -= 1 at pane 0,
\* or width - cursor_offset with cursor_offset > width.
RefitUnderflows(selection, ws, offs) ==
    LET index == cursor_index(selection)
    IN  /\ Containing(ws, offs, index) # {}
        /\ LET r == word_range(ws, offs, FirstContaining(ws, offs, index))
               cursor_offset == index - r[1]
           IN  /\ ~(cursor_offset <= selection.col_start)
               /\ \/ (~(selection.row_num > 0) /\ selection.pane_num = 0)
                  \/ cursor_offset > dump_width

\* a refit that takes the previous-row branch also when the word starts in the
\* cursor's column (cursor_offset < col_start for <=)
refit_selection_strict(selection, ws, offs) ==
    LET index == cursor_index(selection)
    IN  IF Containing(ws, offs, index) = {} THEN selection
        ELSE LET r == word_range(ws, offs, FirstContaining(ws, offs, index))
                 cursor_offset == index - r[1]
             IN  IF cursor_offset < selection.col_start
                 THEN SelectedChunk(selection.pane_num, selection.row_num,
                                    selection.col_start - cursor_offset,
                                    r[2] - r[1])
                 ELSE SelectedChunk(
                          IF selection.row_num > 0 THEN selection.pane_num
                          ELSE selection.pane_num - 1,
                          IF selection.row_num > 0 THEN selection.row_num - 1
                          ELSE dump_height - 1,
                          selection.col_start + (dump_width - cursor_offset),
                          r[2] - r[1])

\* a refit that goes back to the last row without leaving the pane
refit_selection_samePane(selection, ws, offs) ==
    LET index == cursor_index(selection)
    IN  IF Containing(ws, offs, index) = {} THEN selection
        ELSE LET r == word_range(ws, offs, FirstContaining(ws, offs, index))
                 cursor_offset == index - r[1]
             IN  IF cursor_offset <= selection.col_start
                 THEN SelectedChunk(selection.pane_num, selection.row_num,
                                    selection.col_start - cursor_offset,
                                    r[2] - r[1])
                 ELSE SelectedChunk(
                          selection.pane_num,
                          IF selection.row_num > 0 THEN selection.row_num - 1
                          ELSE dump_height - 1,
                          selection.col_start + (dump_width - cursor_offset),
                          r[2] - r[1])

\* a refit that only moves the column back along the row
refit_selection_sameRow(selection, ws, offs) ==
    LET index == cursor_index(selection)
    IN  IF Containing(ws, offs, index) = {} THEN selection
        ELSE LET r == word_range(ws, offs, FirstContaining(ws, offs, index))
                 cursor_offset == index - r[1]
             IN  SelectedChunk(selection.pane_num, selection.row_num,
                               IF cursor_offset <= selection.col_start
                               THEN selection.col_start - cursor_offset
                               ELSE 0,
                               r[2] - r[1])

\* refit_selection(selection, words, word_offsets, hex_dump_pane_dimensions)
refit_selection(selection, ws, offs) ==
    LET index == cursor_index(selection)
    IN  IF Containing(ws, offs, index) = {} THEN selection
        ELSE LET r == word_range(ws, offs, FirstContaining(ws, offs, index))
                 cursor_offset == index - r[1]
             IN  IF cursor_offset <= selection.col_start
                 THEN SelectedChunk(selection.pane_num, selection.row_num,
                                    selection.col_start - cursor_offset,
                                    r[2] - r[1])
                 ELSE \* the word starts on the previous row, which may be the
                      \* last row of the previous pane
                      SelectedChunk(
                          IF selection.row_num > 0 THEN selection.pane_num
                          ELSE selection.pane_num - 1,
                          IF selection.row_num > 0 THEN selection.row_num - 1
                          ELSE dump_height - 1,
                          selection.col_start + (dump_width - cursor_offset),
                          r[2] - r[1])

\* the words the hex dumps of the model hold: those of the cursor tests, and
\* one as long as a row is wide
LaidWords == << <<"a", "b", "c">>, <<"d", "u", "d", "e">>, <<"x", "y", "z">> >>

\* every list of n offsets below limit
OffsetLists(n, limit) == [1..n -> 0..(limit - 1)]

\* a laid word no longer than a row, at any offset inside the two panes of the
\* game, in any order and overlapping or not
LayoutOk(ws, offs) ==
    /\ Len(offs) = Len(ws)
    /\ \A k \in 1..Len(ws) : Len(ws[k]) <= dump_width

\* the cells of the first panes panes
Cells(panes) ==
    {SelectedChunk(p, r, c, 1) : p \in 0..(panes - 1), r \in 0..(dump_height - 1),
                                c \in 0..(dump_width - 1)}

\* refit_selection is called once, on any cell of two panes
InitRefit ==
    /\ StrIdle /\ ShuffleIdle
    /\ DictIdle /\ IterIdle /\ GenIdle /\ ObfIdle /\ GameIdle /\ SolverIdle
    /\ num_panes = 2
    /\ \E n \in 0..MaxLaidWords :
          /\ dump_words = SubSeq(LaidWords, 1, n)
          /\ word_offsets \in OffsetLists(n, 2 * max_bytes_in_pane)
    /\ selected_chunk \in Cells(2)
    /\ last_cmd = "none"
    /\ moved_chunk = NoChunk
    /\ cursor_pc = "call"

\* the call of refit_selection; an underflow panics in the checked build and
\* wraps to a garbage selection in the unchecked one
Refit_call ==
    /\ cursor_pc = "call"
    /\ last_cmd' = "Refit"
    /\ moved_chunk' = selected_chunk
    /\ IF RefitUnderflows(selected_chunk, dump_words, word_offsets)
       THEN /\ cursor_pc' \in {"panic", "wrapped"}
            /\ UNCHANGED selected_chunk
       ELSE /\ selected_chunk' = refit_selection(selected_chunk, dump_words, word_offsets)
            /\ cursor_pc' = "done"
    /\ UNCHANGED layoutVars
    /\ UNCHANGED outsideCursor

NextRefit == Refit_call

SpecRefit == InitRefit /\ [][NextRefit]_vars

\* refit_selection is called a second time, on the selection the first call
\* returned
Refit_again ==
    /\ cursor_pc = "done"
    /\ last_cmd' = "Refit"
    /\ moved_chunk' = selected_chunk
    /\ IF RefitUnderflows(selected_chunk, dump_words, word_offsets)
       THEN /\ cursor_pc' \in {"panic", "wrapped"}
            /\ UNCHANGED selected_chunk
       ELSE /\ selected_chunk' = refit_selection(selected_chunk, dump_words, word_offsets)
            /\ cursor_pc' = "again"
    /\ UNCHANGED layoutVars
    /\ UNCHANGED outsideCursor

NextRefitTwice == Refit_call \/ Refit_again

SpecRefitTwice == InitRefit /\ [][NextRefitTwice]_vars

\* the words lie one after the other inside the hex dump of panes panes, as
\* obfuscate_words lays words of one length
Disjoint(ws, offs, panes) ==
    /\ \A k \in 1..(Len(ws) - 1) : offs[k] + Len(ws[k]) <= offs[k + 1]
    /\ \A k \in 1..Len(ws) : offs[k] + Len(ws[k]) <= panes * max_bytes_in_pane

\* no more than MaxGap filler characters lie between two neighbours
CloseBy(ws, offs) ==
    \A k \in 1..(Len(ws) - 1) : offs[k + 1] - (offs[k] + Len(ws[k])) <= MaxGap

\* move_and_refit of the tests is called again and again, from any cell of a
\* hex dump of 1..MaxPanes panes, with any selection length
InitCursor ==
    /\ StrIdle /\ ShuffleIdle
    /\ DictIdle /\ IterIdle /\ GenIdle /\ ObfIdle /\ GameIdle /\ SolverIdle
    /\ num_panes \in 1..MaxPanes
    /\ \E n \in 0..MaxLaidWords :
          /\ dump_words = SubSeq(LaidWords, 1, n)
          /\ word_offsets \in OffsetLists(n, num_panes * max_bytes_in_pane)
    /\ Disjoint(dump_words, word_offsets, num_panes)
    /\ CloseBy(dump_words, word_offsets)
    /\ \E cell \in Cells(num_panes), len \in 1..dump_width :
          selected_chunk = SelectedChunk(cell.pane_num, cell.row_num, cell.col_start, len)
    /\ last_cmd = "none"
    /\ moved_chunk = NoChunk
    /\ cursor_pc = "call"

\* move_and_refit(selection, movement, words, word_offsets, dimensions, num_panes)
move_and_refit(movement) ==
    /\ cursor_pc = "call"
    /\ LET moved == move_selection(selected_chunk, movement, num_panes)
       IN  /\ last_cmd' = movement
                  /\ moved_chunk' = moved
           /\ IF RefitUnderflows(moved, dump_words, word_offsets)
              THEN /\ cursor_pc' \in {"panic", "wrapped"}
                   /\ UNCHANGED selected_chunk
              ELSE /\ selected_chunk' = refit_selection(moved, dump_words, word_offsets)
                   /\ UNCHANGED cursor_pc
    /\ UNCHANGED layoutVars
    /\ UNCHANGED outsideCursor

NextCursor == \E movement \in Movement : move_and_refit(movement)

SpecCursor == InitCursor /\ [][NextCursor]_vars

----------------------------------------------------------------------------
(* run_game: the input loop over the two panes of the hex dump *)

\* try_select_word(selection, words, word_offsets, hex_dump_pane_dimensions):
\* the word of the first pair whose range holds the cursor, a panic when one of
\* its two assert_eq! fails, None when no range holds the cursor
try_select_word(selection, ws, offs) ==
    LET index == cursor_index(selection)
    IN  IF Containing(ws, offs, index) = {} THEN [kind |-> "None", word |-> <<>>]
        ELSE LET k == FirstContaining(ws, offs, index)
             IN  IF index # offs[k] \/ selection.len # Len(ws[k])
                 THEN [kind |-> "Panic", word |-> <<>>]
                 ELSE [kind |-> "Some", word |-> ws[k]]

\* a game that is over only once more than MAX_ATTEMPTS selections are denied
is_game_over_moreThanMax(denied, accepted) ==
    Len(denied) > MAX_ATTEMPTS \/ accepted # <<>>

\* is_game_over(denied_selections, accepted_selection)
is_game_over(denied, accepted) ==
    Len(denied) = MAX_ATTEMPTS \/ accepted # <<>>

\* the words of one game have one length; the lists the model lays
GameWords == {
    << <<"a", "b", "c">>, <<"x", "b", "z">>, <<"a", "y", "z">>, <<"A", "B", "z">> >>,
    << <<"d", "u", "d", "e">>, <<"d", "a", "d", "s">>, <<"n", "u", "d", "e">>,
       <<"D", "u", "k", "e">> >> }

\* run_game up to its loop: the shuffled words lie in the two panes one after
\* the other, as obfuscate_words lays words of one length, the solution is one
\* of them and the first character of the first pane is selected
InitGame ==
    /\ StrIdle /\ ShuffleIdle
    /\ DictIdle /\ IterIdle /\ GenIdle /\ ObfIdle /\ SolverIdle
    /\ num_panes = 2
    /\ \E list \in GameWords, n \in 1..MaxLaidWords :
          /\ dump_words = SubSeq(list, 1, n)
          /\ word_offsets \in OffsetLists(n, 2 * max_bytes_in_pane)
    /\ Disjoint(dump_words, word_offsets, 2)
    /\ CloseBy(dump_words, word_offsets)
    /\ \E k \in 1..Len(dump_words) : solution = dump_words[k]
    /\ denied_selections = <<>>
    /\ accepted_selection = <<>>
    /\ game_over_timer = "None"
    /\ selected_chunk = SelectedChunk(0, 0, 0, 1)
    /\ last_cmd = "none"
    /\ moved_chunk = NoChunk
    /\ cursor_pc = "idle"
    /\ game_pc = "start"

\* the selection after refit_selection in the game, and whether the game goes
\* on: an underflow panics in the checked build and wraps in the unchecked one
GameRefit(selection) ==
    IF RefitUnderflows(selection, dump_words, word_offsets)
    THEN /\ game_pc' \in {"panic", "wrapped"}
         /\ UNCHANGED selected_chunk
    ELSE /\ selected_chunk' = refit_selection(selection, dump_words, word_offsets)
         /\ game_pc' = "loop"

\* a loop that also breaks at the end of a pass while no timer is set
EndOfFrame_noTimer(timer) ==
    game_pc' \in {"loop", "exit"}

\* the end of one pass of the loop: once the timer is set the hold time may
\* have elapsed, and the loop breaks (game_pc "exit" is the break of line 665)
EndOfFrame(timer) ==
    game_pc' \in (IF timer = "Some" THEN {"loop", "exit"} ELSE {"loop"})

\* the refit of the first selection, before the loop
Game_start ==
    /\ game_pc = "start"
    /\ GameRefit(selected_chunk)
    /\ UNCHANGED <<solution, denied_selections, accepted_selection, game_over_timer>>
    /\ UNCHANGED <<num_panes, dump_words, word_offsets>>
    /\ UNCHANGED outsideGame

\* a pass of the loop with no input
Game_no_input ==
    /\ game_pc = "loop"
    /\ EndOfFrame(game_over_timer)
    /\ UNCHANGED <<solution, denied_selections, accepted_selection, game_over_timer>>
    /\ UNCHANGED <<num_panes, dump_words, word_offsets, selected_chunk>>
    /\ UNCHANGED outsideGame

\* InputCmd::Move(movement)
Game_move(movement) ==
    /\ game_pc = "loop"
    /\ LET moved == move_selection(selected_chunk, movement, 2)
       IN  IF RefitUnderflows(moved, dump_words, word_offsets)
           THEN GameRefit(moved)
           ELSE /\ selected_chunk' = refit_selection(moved, dump_words, word_offsets)
                /\ EndOfFrame(game_over_timer)
    /\ UNCHANGED <<solution, denied_selections, accepted_selection, game_over_timer>>
    /\ UNCHANGED <<num_panes, dump_words, word_offsets>>
    /\ UNCHANGED outsideGame

\* a Select that pushes the selected word on the denied list even when it is
\* the solution
Game_select_alwaysDenied ==
    /\ game_pc = "loop"
    /\ IF is_game_over(denied_selections, accepted_selection)
       THEN /\ UNCHANGED <<denied_selections, accepted_selection, game_over_timer>>
            /\ EndOfFrame(game_over_timer)
       ELSE LET selected_word_result ==
                    try_select_word(selected_chunk, dump_words, word_offsets)
                selected_word == selected_word_result.word
            IN  IF selected_word_result.kind = "Panic"
                THEN /\ game_pc' = "panic"
                     /\ UNCHANGED <<denied_selections, accepted_selection,
                                    game_over_timer>>
                ELSE /\ accepted_selection' =
                            IF selected_word_result.kind = "Some"
                               /\ selected_word = solution
                            THEN <<selected_word>> ELSE accepted_selection
                     /\ denied_selections' =
                            IF selected_word_result.kind = "Some"
                            THEN Append(denied_selections,
                                        <<selected_word,
                                          matching_char_count_ignore_case(
                                              solution, selected_word)>>)
                            ELSE denied_selections
                     /\ game_over_timer' =
                            IF is_game_over(denied_selections', accepted_selection')
                            THEN "Some" ELSE game_over_timer
                     /\ EndOfFrame(game_over_timer')
    /\ UNCHANGED <<solution, num_panes, dump_words, word_offsets, selected_chunk>>
    /\ UNCHANGED outsideGame

\* a Select that does not ask is_game_over before it looks at the cursor
Game_select_whenOver ==
    /\ game_pc = "loop"
    /\ LET selected_word_result ==
               try_select_word(selected_chunk, dump_words, word_offsets)
           selected_word == selected_word_result.word
       IN  /\ selected_word_result.kind # "Panic"
           /\ accepted_selection' =
                  IF selected_word_result.kind = "Some" /\ selected_word = solution
                  THEN <<selected_word>> ELSE accepted_selection
           /\ denied_selections' =
                  IF selected_word_result.kind = "Some" /\ selected_word # solution
                  THEN Append(denied_selections,
                              <<selected_word,
                                matching_char_count_ignore_case(solution, selected_word)>>)
                  ELSE denied_selections
           /\ game_over_timer' =
                  IF is_game_over(denied_selections', accepted_selection')
                  THEN "Some" ELSE game_over_timer
           /\ EndOfFrame(game_over_timer')
    /\ UNCHANGED <<solution, num_panes, dump_words, word_offsets, selected_chunk>>
    /\ UNCHANGED outsideGame

\* InputCmd::Select
Game_select ==
    /\ game_pc = "loop"
    /\ IF is_game_over(denied_selections, accepted_selection)
       THEN /\ UNCHANGED <<denied_selections, accepted_selection, game_over_timer>>
            /\ EndOfFrame(game_over_timer)
       ELSE LET selected_word_result ==
                    try_select_word(selected_chunk, dump_words, word_offsets)
                selected_word == selected_word_result.word
            IN  IF selected_word_result.kind = "Panic"
                   \/ (selected_word_result.kind = "Some" /\ selected_word # solution
                       /\ LenMismatch(solution, selected_word))
                THEN /\ game_pc' = "panic"
                     /\ UNCHANGED <<denied_selections, accepted_selection,
                                    game_over_timer>>
                ELSE /\ accepted_selection' =
                            IF selected_word_result.kind = "Some"
                               /\ selected_word = solution
                            THEN <<selected_word>> ELSE accepted_selection
                     /\ denied_selections' =
                            IF selected_word_result.kind = "Some"
                               /\ selected_word # solution
                            THEN Append(denied_selections,
                                        <<selected_word,
                                          matching_char_count_ignore_case(
                                              solution, selected_word)>>)
                            ELSE denied_selections
                     /\ game_over_timer' =
                            IF is_game_over(denied_selections', accepted_selection')
                            THEN "Some" ELSE game_over_timer
                     /\ EndOfFrame(game_over_timer')
    /\ UNCHANGED <<solution, num_panes, dump_words, word_offsets, selected_chunk>>
    /\ UNCHANGED outsideGame

\* InputCmd::Quit (game_pc "quit" is the break of line 641)
Game_quit ==
    /\ game_pc = "loop"
    /\ game_pc' = "quit"
    /\ UNCHANGED <<solution, denied_selections, accepted_selection, game_over_timer>>
    /\ UNCHANGED <<num_panes, dump_words, word_offsets, selected_chunk>>
    /\ UNCHANGED outsideGame

NextGame ==
    \/ Game_start
    \/ Game_no_input
    \/ \E movement \in Movement : Game_move(movement)
    \/ Game_select
    \/ Game_quit

SpecGame == InitGame /\ [][NextGame]_vars

\* run_game up to its loop as in InitGame, for the attempts of a game: the
\* words lie at even spacing, start filler characters before the first word
\* and gap between two neighbours
InitPlay ==
    /\ StrIdle /\ ShuffleIdle
    /\ DictIdle /\ IterIdle /\ GenIdle /\ ObfIdle /\ SolverIdle
    /\ num_panes = 2
    /\ \E list \in GameWords, n \in 1..MaxLaidWords, start \in 0..MaxGap, gap \in 0..MaxGap :
          /\ dump_words = SubSeq(list, 1, n)
          /\ word_offsets = [k \in 1..n |-> start + (k - 1) * (Len(list[1]) + gap)]
    /\ Disjoint(dump_words, word_offsets, 2)
    /\ \E k \in 1..Len(dump_words) : solution = dump_words[k]
    /\ denied_selections = <<>>
    /\ accepted_selection = <<>>
    /\ game_over_timer = "None"
    /\ selected_chunk = SelectedChunk(0, 0, 0, 1)
    /\ last_cmd = "none"
    /\ moved_chunk = NoChunk
    /\ cursor_pc = "idle"
    /\ game_pc = "start"

SpecPlay == InitPlay /\ [][NextGame]_vars

----------------------------------------------------------------------------
(* run_game from the shuffle of the words to the cursor on the hex dump *)

\* a swap that copies v[b] over v[a] and leaves v[b] as it is
swap_copyOnly(vec, a, b) == [vec EXCEPT ![a + 1] = vec[b + 1]]

\* Vec::swap(a, b)
swap(vec, a, b) == [vec EXCEPT ![a + 1] = vec[b + 1], ![b + 1] = vec[a + 1]]

\* run_game has the words of generate_words, the goal in the first place, and
\* calls simple_shuffle on them (the lists of the model are shorter than the 12
\* words run_game asserts)
InitWin ==
    /\ StrIdle
    /\ DictIdle /\ IterIdle /\ GenIdle /\ ObfIdle /\ SolverIdle
    /\ num_panes = 2
    /\ \E list \in GameWords, n \in 1..MaxLaidWords : unshuffled_words = SubSeq(list, 1, n)
    /\ solution = unshuffled_words[1]
    /\ shuffle_v = unshuffled_words
    /\ shuffle_i = 0
    /\ dump_words = <<>>
    /\ word_offsets = <<>>
    /\ denied_selections = <<>>
    /\ accepted_selection = <<>>
    /\ game_over_timer = "None"
    /\ selected_chunk = SelectedChunk(0, 0, 0, 1)
    /\ last_cmd = "none"
    /\ moved_chunk = NoChunk
    /\ cursor_pc = "idle"
    /\ game_pc = "shuffle"

\* one iteration of for _ in 0..NUM_SWAPS (the lists are not empty, so
\* gen_range(0, v.len()) has a value)
Shuffle_swap ==
    /\ game_pc = "shuffle"
    /\ shuffle_i < NUM_SWAPS
    /\ \E index \in gen_range(0, Len(shuffle_v)) :
          shuffle_v' = swap(shuffle_v, 0, index)
    /\ shuffle_i' = shuffle_i + 1
    /\ UNCHANGED <<unshuffled_words, layoutVars, selected_chunk, gameVars>>
    /\ UNCHANGED outsideShuffle

\* simple_shuffle returns v as run_game's words, and obfuscate_words lays them
\* in the two panes: words of one length lie one after the other, at any
\* offsets (the first selection is made before the loop)
Lay_words ==
    /\ game_pc = "shuffle"
    /\ ~(shuffle_i < NUM_SWAPS)
    /\ dump_words' = shuffle_v
    /\ word_offsets' \in {offs \in OffsetLists(Len(shuffle_v), 2 * max_bytes_in_pane) :
                             Disjoint(shuffle_v, offs, 2)}
    /\ game_pc' = "start"
    /\ UNCHANGED <<num_panes, selected_chunk, solution, denied_selections,
                   accepted_selection, game_over_timer>>
    /\ UNCHANGED shuffleVars
    /\ UNCHANGED outsideShuffle

NextWin ==
    \/ Shuffle_swap
    \/ Lay_words
    \/ Game_start
    \/ \E movement \in Movement : Game_move(movement)

SpecWin == InitWin /\ [][NextWin]_vars

----------------------------------------------------------------------------
(* The solver: filter_matching_passwords *)

\* KnownGuess::new(word, char_count)
KnownGuess(word, char_count) == [word |-> word, char_count |-> char_count]

\* Vec::swap_remove(i): the element at i (0-based) is replaced by the last one
swap_remove(v, i) == SubSeq([v EXCEPT ![i + 1] = v[Len(v)]], 1, Len(v) - 1)

\* the for loop of filter_matching_passwords from index i down to 0
RECURSIVE FilterLoop(_, _, _)
FilterLoop(guess, pw, i) ==
    IF i < 0 THEN pw
    ELSE LET matching_count == matching_char_count_ignore_case(pw[i + 1], guess.word)
         IN  FilterLoop(guess,
                        IF matching_count # guess.char_count THEN swap_remove(pw, i)
                        ELSE pw,
                        i - 1)

\* a loop that walks the indices upwards and so never looks at the element
\* swap_remove has just moved into the place of the removed one
RECURSIVE FilterLoopForward(_, _, _)
FilterLoopForward(guess, pw, i) ==
    IF i >= Len(pw) THEN pw
    ELSE LET matching_count == matching_char_count_ignore_case(pw[i + 1], guess.word)
         IN  FilterLoopForward(guess,
                               IF matching_count # guess.char_count
                               THEN swap_remove(pw, i) ELSE pw,
                               i + 1)

\* a filter that walks the indices upwards
filter_matching_passwords_forward(guess, pw) == FilterLoopForward(guess, pw, 0)

\* a filter that keeps a candidate with more matching characters than the guess
filter_matching_passwords_atLeast(guess, pw) ==
    SelectSeq(pw, LAMBDA p : matching_char_count_ignore_case(p, guess.word)
                                 >= guess.char_count)

\* a filter that compares the guess's count with the hamming distance
filter_matching_passwords_byDistance(guess, pw) ==
    SelectSeq(pw, LAMBDA p : hamming_dist_ignore_case(p, guess.word) = guess.char_count)

\* filter_matching_passwords(guess, passwords)
filter_matching_passwords(guess, pw) == FilterLoop(guess, pw, Len(pw) - 1)

\* the assert_eq! of matching_char_count_ignore_case fails on a candidate
FilterPanics(guess, pw) == \E i \in 1..Len(pw) : LenMismatch(pw[i], guess.word)

\* the candidates of the model: the words of check_filter_matching_passwords,
\* one of them in capitals as well, and a shorter word of the validation tests
FilterWords == {
    <<"a", "p", "p", "l", "e">>, <<"b", "p", "p", "e", "f">>,
    <<"e", "l", "p", "p", "a">>, <<"A", "P", "P", "L", "E">>,
    <<"b", "a", "l", "e">> }

\* the character counts of the guesses of the model
GuessCounts == {0, 1, 2, 5}

Guesses == {KnownGuess(w, n) : w \in FilterWords, n \in GuessCounts}

\* filter_matching_passwords is called with one guess and then, on the list it
\* returned, with another
InitFilter ==
    /\ StrIdle /\ ShuffleIdle
    /\ DictIdle /\ IterIdle /\ GenIdle /\ ObfIdle /\ CursorIdle /\ GameIdle
    /\ LoopIdle /\ StartIdle
    /\ pwd_start \in SeqsUpTo(FilterWords, MaxCandidates)
    /\ guesses = <<>>
    /\ passwords_arg = <<>>
    /\ passwords = pwd_start
    /\ filter_pc = "first"

\* one call of filter_matching_passwords
Filter_call(guess) ==
    /\ filter_pc \in {"first", "second"}
    /\ guesses' = Append(guesses, guess)
    /\ passwords_arg' = passwords
    /\ IF FilterPanics(guess, passwords)
       THEN /\ filter_pc' = "panic"
            /\ UNCHANGED passwords
       ELSE /\ passwords' = filter_matching_passwords(guess, passwords)
            /\ filter_pc' = IF filter_pc = "first" THEN "second" ELSE "done"
    /\ UNCHANGED pwd_start
    /\ UNCHANGED outsideFilter

NextFilter == \E guess \in Guesses : Filter_call(guess)

SpecFilter == InitFilter /\ [][NextFilter]_vars

----------------------------------------------------------------------------
(* The solver: the input loop *)

\* the value of a decimal digit
DigitValue ==
    [c \in {"0", "1", "2", "3", "4", "5", "6", "7", "8", "9"} |->
        CASE c = "0" -> 0 [] c = "1" -> 1 [] c = "2" -> 2 [] c = "3" -> 3
          [] c = "4" -> 4 [] c = "5" -> 5 [] c = "6" -> 6 [] c = "7" -> 7
          [] c = "8" -> 8 [] c = "9" -> 9]

\* str::parse::<usize> of a string of decimal digits that is not empty
RECURSIVE parse(_)
parse(str) ==
    IF Len(str) = 1 THEN DigitValue[str[1]]
    ELSE 10 * parse(SubSeq(str, 1, Len(str) - 1)) + DigitValue[str[Len(str)]]

\* known_guesses of the refresh: the passwords whose count buffer is not empty,
\* in the order of the list, each with the count its buffer holds
RECURSIVE known_guesses(_, _)
known_guesses(pw, bufs) ==
    IF pw = <<>> THEN <<>>
    ELSE (IF Head(bufs) # <<>> THEN <<KnownGuess(Head(pw), parse(Head(bufs)))>>
          ELSE <<>>)
         \o known_guesses(Tail(pw), Tail(bufs))

\* the for loop of the refresh: one filter_matching_passwords per guess
RECURSIVE ApplyGuesses(_, _)
ApplyGuesses(known, filtered) ==
    IF known = <<>> THEN filtered
    ELSE ApplyGuesses(Tail(known), filter_matching_passwords(Head(known), filtered))

\* a refresh that filters the list the last refresh left
RefreshedPasswords_incremental(pw, bufs) ==
    ApplyGuesses(known_guesses(pw, bufs), filtered_input_passwords)

\* filtered_input_passwords after a refresh: a clone of input_passwords,
\* filtered with every known guess
RefreshedPasswords(pw, bufs) == ApplyGuesses(known_guesses(pw, bufs), pw)

\* the digits the model types
Digits == {"0", "1", "2"}

\* the validated password lists the loop of the model runs on: the list of
\* check_filter_matching_passwords and shorter ones
SolverLists == {
    << <<"a", "p", "p", "l", "e">>, <<"b", "p", "p", "e", "f">>,
       <<"e", "l", "p", "p", "a">> >>,
    << <<"e", "l", "p", "p", "a">>, <<"a", "p", "p", "l", "e">> >>,
    << <<"b", "p", "p", "e", "f">> >> }

\* solver before its loop: the passwords are validated and filtered with the
\* guesses of the command line, every count buffer is empty
InitSolver ==
    /\ StrIdle /\ ShuffleIdle
    /\ DictIdle /\ IterIdle /\ GenIdle /\ ObfIdle /\ CursorIdle /\ GameIdle
    /\ FilterIdle /\ StartIdle
    /\ input_passwords \in SolverLists
    /\ menu_cursor = 0
    /\ refresh_filtered_passwords = TRUE
    /\ clear_on_next_number_input = TRUE
    /\ number_input_buffers = [i \in 1..Len(input_passwords) |-> <<>>]
    /\ filtered_input_passwords = <<>>
    /\ ch = "none"
    /\ solver_pc = "enter"

\* the head of a pass of the loop: the refresh, when it is due
Refresh ==
    IF refresh_filtered_passwords
    THEN filtered_input_passwords' =
             RefreshedPasswords(input_passwords, number_input_buffers)
    ELSE UNCHANGED filtered_input_passwords

\* a pass of the loop can be made.  (The passwords are validated: they have
\* one length, so no assert_eq! of matching_char_count_ignore_case fails in
\* the refresh.)
PassStarts == solver_pc \in {"enter", "loop"}

\* a loop that ends once at most one candidate remains
NextFrame_stopWhenSolved ==
    IF Len(filtered_input_passwords') <= 1 THEN "exit" ELSE "loop"

\* the tail of a pass that does not break: render, sleep and back to the head
NextFrame == "loop"

\* a pass in which getch returns no character, or one that no arm matches
Solver_no_input ==
    /\ PassStarts
    /\ Refresh
    /\ ch' \in {"none", "x"}
    /\ refresh_filtered_passwords' = FALSE
    /\ solver_pc' = NextFrame
    /\ UNCHANGED <<input_passwords, number_input_buffers, menu_cursor,
                   clear_on_next_number_input>>
    /\ UNCHANGED outsideLoop

\* 'w'
Solver_up ==
    /\ PassStarts
    /\ Refresh
    /\ ch' = "w"
    /\ menu_cursor' = IF menu_cursor - 1 > 0 THEN menu_cursor - 1 ELSE 0
    /\ refresh_filtered_passwords' = TRUE
    /\ clear_on_next_number_input' = TRUE
    /\ solver_pc' = NextFrame
    /\ UNCHANGED <<input_passwords, number_input_buffers>>
    /\ UNCHANGED outsideLoop

\* an 's' arm that moves the cursor down without the min with the list's length
Solver_down_unclamped ==
    /\ PassStarts
    /\ Refresh
    /\ ch' = "s"
    /\ menu_cursor' = menu_cursor + 1
    /\ refresh_filtered_passwords' = TRUE
    /\ clear_on_next_number_input' = TRUE
    /\ solver_pc' = NextFrame
    /\ UNCHANGED <<input_passwords, number_input_buffers>>
    /\ UNCHANGED outsideLoop

\* 's'
Solver_down ==
    /\ PassStarts
    /\ Refresh
    /\ ch' = "s"
    /\ menu_cursor' = IF menu_cursor + 1 < Len(input_passwords) THEN menu_cursor + 1
                      ELSE Len(input_passwords)
    /\ refresh_filtered_passwords' = TRUE
    /\ clear_on_next_number_input' = TRUE
    /\ solver_pc' = NextFrame
    /\ UNCHANGED <<input_passwords, number_input_buffers>>
    /\ UNCHANGED outsideLoop

\* ascii_keycodes::ENTER
Solver_enter ==
    /\ PassStarts
    /\ Refresh
    /\ ch' = "ENTER"
    /\ IF menu_cursor = Len(input_passwords)
       THEN /\ solver_pc' = "exit"
            /\ refresh_filtered_passwords' = FALSE
            /\ UNCHANGED clear_on_next_number_input
       ELSE /\ solver_pc' = NextFrame
            /\ refresh_filtered_passwords' = TRUE
            /\ clear_on_next_number_input' = TRUE
    /\ UNCHANGED <<input_passwords, number_input_buffers, menu_cursor>>
    /\ UNCHANGED outsideLoop

\* a digit arm that takes a digit only for a word that is still a candidate
Solver_digit_membersOnly ==
    /\ PassStarts
    /\ Refresh
    /\ ch' \in Digits
    /\ LET menu_idx == menu_cursor
       IN  IF menu_idx < Len(input_passwords)
              /\ \E k \in 1..Len(filtered_input_passwords') :
                    filtered_input_passwords'[k] = input_passwords[menu_idx + 1]
           THEN LET number_input_buffer ==
                        IF clear_on_next_number_input THEN <<>>
                        ELSE number_input_buffers[menu_idx + 1]
                IN  /\ clear_on_next_number_input' = FALSE
                    /\ number_input_buffers' =
                           [number_input_buffers EXCEPT ![menu_idx + 1] =
                               IF Len(number_input_buffer) < 2
                               THEN Append(number_input_buffer, ch')
                               ELSE number_input_buffer]
           ELSE UNCHANGED <<number_input_buffers, clear_on_next_number_input>>
    /\ refresh_filtered_passwords' = FALSE
    /\ solver_pc' = NextFrame
    /\ UNCHANGED <<input_passwords, menu_cursor>>
    /\ UNCHANGED outsideLoop

\* '0' | '1' | ... | '9'
Solver_digit ==
    /\ PassStarts
    /\ Refresh
    /\ ch' \in Digits
    /\ LET menu_idx == menu_cursor
       IN  IF menu_idx < Len(input_passwords)
           THEN LET number_input_buffer ==
                        IF clear_on_next_number_input THEN <<>>
                        ELSE number_input_buffers[menu_idx + 1]
                IN  /\ clear_on_next_number_input' = FALSE
                    /\ number_input_buffers' =
                           [number_input_buffers EXCEPT ![menu_idx + 1] =
                               IF Len(number_input_buffer) < 2
                               THEN Append(number_input_buffer, ch')
                               ELSE number_input_buffer]
           ELSE UNCHANGED <<number_input_buffers, clear_on_next_number_input>>
    /\ refresh_filtered_passwords' = FALSE
    /\ solver_pc' = NextFrame
    /\ UNCHANGED <<input_passwords, menu_cursor>>
    /\ UNCHANGED outsideLoop

\* ascii_keycodes::BKSP | ascii_keycodes::DEL
Solver_backspace ==
    /\ PassStarts
    /\ Refresh
    /\ ch' \in {"BKSP", "DEL"}
    /\ LET menu_idx == menu_cursor
       IN  IF menu_idx < Len(input_passwords)
              /\ number_input_buffers[menu_idx + 1] # <<>>
           THEN number_input_buffers' =
                    [number_input_buffers EXCEPT ![menu_idx + 1] =
                        SubSeq(@, 1, Len(@) - 1)]
           ELSE UNCHANGED number_input_buffers
    /\ refresh_filtered_passwords' = FALSE
    /\ solver_pc' = NextFrame
    /\ UNCHANGED <<input_passwords, menu_cursor, clear_on_next_number_input>>
    /\ UNCHANGED outsideLoop

\* ascii_keycodes::ESC
Solver_esc ==
    /\ PassStarts
    /\ Refresh
    /\ ch' = "ESC"
    /\ refresh_filtered_passwords' = FALSE
    /\ solver_pc' = "exit"
    /\ UNCHANGED <<input_passwords, number_input_buffers, menu_cursor,
                   clear_on_next_number_input>>
    /\ UNCHANGED outsideLoop

NextSolver ==
    \/ Solver_no_input
    \/ Solver_up
    \/ Solver_down
    \/ Solver_enter
    \/ Solver_digit
    \/ Solver_backspace
    \/ Solver_esc

SpecSolver == InitSolver /\ [][NextSolver]_vars

----------------------------------------------------------------------------
(* The solver before its loop: validate_input_passwords, the guesses of    *)
(* the command line and the first filtering                                *)

\* the lines of assets/dict/<word_len>_char_words_alpha.txt in the model: a few
\* words for the length of the validation tests and for the length of every
\* difficulty, no line for any other length
DictFile(wl) ==
    CASE wl = 5 ->
           << <<"a", "p", "p", "l", "e">>,
              <<"e", "l", "p", "p", "a">>,
              <<"s", "e", "e", "d", "s">> >>
      [] wl = 4 ->
           << <<"b", "a", "l", "e">>,
              <<"d", "u", "d", "e">>,
              <<"d", "u", "l", "l">>,
              <<"p", "e", "n", "s">>,
              <<"p", "a", "n", "s">> >>
      [] wl = 6 ->
           << <<"b", "a", "n", "a", "n", "a">>,
              <<"b", "a", "n", "d", "i", "t">>,
              <<"c", "a", "n", "o", "p", "y">>,
              <<"c", "a", "n", "n", "o", "n">>,
              <<"d", "a", "n", "g", "e", "r">> >>
      [] wl = 8 ->
           << <<"a", "b", "s", "o", "l", "u", "t", "e">>,
              <<"a", "p", "t", "i", "t", "u", "d", "e">>,
              <<"s", "o", "l", "i", "t", "u", "d", "e">>,
              <<"l", "a", "t", "i", "t", "u", "d", "e">>,
              <<"a", "l", "t", "i", "t", "u", "d", "e">> >>
      [] wl = 10 ->
           << <<"g", "e", "n", "e", "r", "a", "t", "i", "o", "n">>,
              <<"g", "e", "n", "e", "r", "o", "s", "i", "t", "y">>,
              <<"c", "e", "n", "t", "e", "n", "n", "i", "a", "l">>,
              <<"f", "e", "d", "e", "r", "a", "t", "i", "o", "n">>,
              <<"m", "o", "d", "e", "r", "a", "t", "i", "o", "n">> >>
      [] wl = 12 ->
           << <<"i", "n", "t", "e", "l", "l", "i", "g", "e", "n", "c", "e">>,
              <<"i", "n", "t", "e", "r", "m", "e", "d", "i", "a", "t", "e">>,
              <<"s", "a", "t", "i", "s", "f", "a", "c", "t", "i", "o", "n">>,
              <<"i", "n", "t", "e", "r", "f", "e", "r", "e", "n", "c", "e">>,
              <<"i", "n", "d", "e", "p", "e", "n", "d", "e", "n", "c", "e">> >>
      [] OTHER -> <<>>

\* EnglishDictChunk::load(word_len)
load(wl) == [word_len |-> wl, word_set |-> DictFile(wl)]

\* EnglishDictChunk::is_word(word), once its assert_eq! has passed
is_word(dict, word) == \E i \in 1..Len(dict.word_set) : dict.word_set[i] = word

\* the assert_eq! of is_word fails
IsWordPanics(dict, word) == dict.word_len # Len(word)

\* the entries Iterator::all hands to is_word: all() stops at the first entry
\* for which is_word returns false
IsWordCalls(dict, p) ==
    {i \in 1..Len(p) : \A j \in 1..(i - 1) : is_word(dict, p[j])}

Result(kind, p, dict) == [kind |-> kind, pwds |-> p, dict |-> dict]

\* a validation that looks the entries up before it compares their lengths
validate_input_passwords_dictFirst(p) ==
    IF Len(p) = 0 THEN Result("InputEmpty", <<>>, <<>>)
    ELSE LET required_len == Len(p[1])
             dict == load(required_len)
             equal_len == \A i \in 1..Len(p) : Len(p[i]) = required_len
             all_valid_words == \A i \in 1..Len(p) : is_word(dict, p[i])
         IN  IF \E i \in IsWordCalls(dict, p) : IsWordPanics(dict, p[i])
             THEN Result("panic", <<>>, <<dict>>)
             ELSE IF ~all_valid_words
             THEN Result("PasswordNotFoundInEnglishDict", <<>>, <<dict>>)
             ELSE IF ~equal_len
             THEN Result("InvalidPasswordLengthFound", <<>>, <<dict>>)
             ELSE Result("Ok", p, <<dict>>)

\* validate_input_passwords(pwds): the Err kind or Ok with the list, and the
\* chunk it loaded, if it loaded one ("panic" when the assert_eq! of is_word
\* fails)
validate_input_passwords(p) ==
    IF Len(p) = 0 THEN Result("InputEmpty", <<>>, <<>>)
    ELSE LET required_len == Len(p[1])
             equal_len == \A i \in 1..Len(p) : Len(p[i]) = required_len
         IN  IF ~equal_len THEN Result("InvalidPasswordLengthFound", <<>>, <<>>)
             ELSE LET dict == load(required_len)
                      all_valid_words == \A i \in 1..Len(p) : is_word(dict, p[i])
                  IN  IF \E i \in IsWordCalls(dict, p) : IsWordPanics(dict, p[i])
                      THEN Result("panic", <<>>, <<dict>>)
                      ELSE IF ~all_valid_words
                      THEN Result("PasswordNotFoundInEnglishDict", <<>>, <<dict>>)
                      ELSE Result("Ok", p, <<dict>>)

\* str::parse::<usize> returns Ok on the string
ParseOk(str) == Len(str) > 0 /\ \A i \in 1..Len(str) : str[i] \in DOMAIN DigitValue

\* the loop over guess_args.chunks(2) panics: a last chunk of one element has
\* no guess_slice[1], or a count does not parse
GuessArgsPanic(args) ==
    \/ Len(args) % 2 = 1
    \/ \E k \in 1..(Len(args) \div 2) : ~ParseOk(args[2 * k])

\* known_guesses of line 73: one KnownGuess per chunk of two arguments
KnownGuessesOf(args) ==
    [k \in 1..(Len(args) \div 2) |-> KnownGuess(args[2 * k - 1], parse(args[2 * k]))]

\* a check made inside the filtering loop: each guess is looked up in the
\* list the guesses before it have left
UnknownGuesses_filteredSoFar(known, pw) ==
    {k \in 1..Len(known) :
        ~\E i \in 1..Len(ApplyGuesses(SubSeq(known, 1, k - 1), pw)) :
            ApplyGuesses(SubSeq(known, 1, k - 1), pw)[i] = known[k].word}

\* the guesses for which input_passwords.contains(&guess.word) is false
UnknownGuesses(known, pw) ==
    {k \in 1..Len(known) : ~\E i \in 1..Len(pw) : pw[i] = known[k].word}

\* the lines of the password files of the model: words of the validation
\* tests and of check_filter_matching_passwords
StartWords == {
    <<"a", "p", "p", "l", "e">>, <<"e", "l", "p", "p", "a">>,
    <<"b", "p", "p", "e", "f">>, <<"b", "a", "l", "e">> }

\* the arguments after the password file: words and counts
ArgStrings == {
    <<"a", "p", "p", "l", "e">>, <<"e", "l", "p", "p", "a">>, <<"1">>, <<"5">> }

\* solver is called
InitStart ==
    /\ StrIdle /\ ShuffleIdle
    /\ DictIdle /\ IterIdle /\ GenIdle /\ ObfIdle /\ CursorIdle /\ GameIdle
    /\ FilterIdle /\ LoopIdle
    /\ pwds \in SeqsUpTo(StartWords, MaxCandidates)
    /\ guess_args \in SeqsUpTo(ArgStrings, MaxGuessArgs)
    /\ validation = NoResult
    /\ start_known_guesses = <<>>
    /\ start_pc = "validate"

\* lines 65-71: the file is read and validated
Start_validate ==
    /\ start_pc = "validate"
    /\ validation' = validate_input_passwords(pwds)
    /\ IF validation'.dict # <<>>
       THEN /\ word_len' = validation'.dict[1].word_len
            /\ word_set' = validation'.dict[1].word_set
       ELSE UNCHANGED dictVars
    /\ IF validation'.kind = "Ok"
       THEN /\ input_passwords' = validation'.pwds
            /\ start_pc' = "guesses"
       ELSE /\ UNCHANGED input_passwords
            /\ start_pc' = "panic_validation"
    /\ UNCHANGED <<pwds, guess_args, start_known_guesses>>
    /\ UNCHANGED <<loopLocals, outsideStart>>

\* lines 73-84: the guesses of the command line
Start_known_guesses ==
    /\ start_pc = "guesses"
    /\ IF GuessArgsPanic(guess_args)
       THEN /\ start_pc' = "panic_guess_args"
            /\ UNCHANGED start_known_guesses
       ELSE /\ start_known_guesses' = KnownGuessesOf(guess_args)
            /\ start_pc' = "check"
    /\ UNCHANGED <<pwds, validation, guess_args, input_passwords, dictVars>>
    /\ UNCHANGED <<loopLocals, outsideStart>>

\* lines 86-90: every guess must be a word of the list
Start_check ==
    /\ start_pc = "check"
    /\ start_pc' = IF UnknownGuesses(start_known_guesses, input_passwords) # {}
                   THEN "panic_unknown_guess" ELSE "filter"
    /\ UNCHANGED <<pwds, validation, guess_args, start_known_guesses,
                   input_passwords, dictVars>>
    /\ UNCHANGED <<loopLocals, outsideStart>>

\* lines 92-94: the list is filtered with every guess.  (The guesses are words
\* of the list and the list has one length, so no assert_eq! of
\* matching_char_count_ignore_case fails.)
Start_filter ==
    /\ start_pc = "filter"
    /\ input_passwords' = ApplyGuesses(start_known_guesses, input_passwords)
    /\ start_pc' = "menu"
    /\ UNCHANGED <<pwds, validation, guess_args, start_known_guesses, dictVars>>
    /\ UNCHANGED <<loopLocals, outsideStart>>

\* lines 96-121: the menu is measured (max() of no length is None and its
\* unwrap panics) and the locals of the loop are set
Start_menu ==
    /\ start_pc = "menu"
    /\ IF input_passwords = <<>>
       THEN /\ start_pc' = "panic_empty_list"
            /\ UNCHANGED loopLocals
       ELSE /\ start_pc' = "loop"
            /\ menu_cursor' = 0
            /\ refresh_filtered_passwords' = TRUE
            /\ clear_on_next_number_input' = TRUE
            /\ number_input_buffers' = [i \in 1..Len(input_passwords) |-> <<>>]
            /\ filtered_input_passwords' = <<>>
            /\ solver_pc' = "enter"
            /\ UNCHANGED ch
    /\ UNCHANGED <<pwds, validation, guess_args, start_known_guesses,
                   input_passwords, dictVars>>
    /\ UNCHANGED outsideStart

NextStart ==
    \/ Start_validate
    \/ Start_known_guesses
    \/ Start_check
    \/ Start_filter
    \/ Start_menu

SpecStart == InitStart /\ [][NextStart]_vars

----------------------------------------------------------------------------
(* generate_words_from_difficulty: the table of the difficulties *)

Difficulty == {"VeryEasy", "Easy", "Average", "Hard", "VeryHard"}

\* get_hamming_distance_distribution(difficulty)
get_hamming_distance_distribution(d) ==
    LET distances == CASE d = "VeryEasy" -> <<1, 2, 3, 4>>
                       [] d = "Easy" -> <<1, 3, 4, 5>>
                       [] d = "Average" -> <<1, 3, 5, 7>>
                       [] d = "Hard" -> <<1, 4, 6, 9>>
                       [] d = "VeryHard" -> <<1, 3, 7, 10>>
    IN  Distribution(<<1, 2, 3, 5>>, distances)

\* a table whose lengths grow by one from difficulty to difficulty
get_word_len_for_difficulty_byOne(d) ==
    CASE d = "VeryEasy" -> 4
      [] d = "Easy" -> 5
      [] d = "Average" -> 6
      [] d = "Hard" -> 7
      [] d = "VeryHard" -> 8

\* get_word_len_for_difficulty(difficulty)
get_word_len_for_difficulty(d) ==
    CASE d = "VeryEasy" -> 4
      [] d = "Easy" -> 6
      [] d = "Average" -> 8
      [] d = "Hard" -> 10
      [] d = "VeryHard" -> 12

\* generate_words_from_difficulty is called
InitDifficulty ==
    /\ StrIdle /\ ShuffleIdle
    /\ DictIdle /\ IterIdle /\ ObfIdle /\ CursorIdle /\ GameIdle /\ SolverIdle
    /\ difficulty \in Difficulty
    /\ hd_distribution = <<>>
    /\ hd_distribution_tracker = <<>>
    /\ current_hd_distribution_index = 0
    /\ words = <<>>
    /\ goal_word = <<>>
    /\ gen_pc = "from_difficulty"

\* the chunk of the difficulty's word length is loaded and generate_words is
\* called with it and with the difficulty's distribution
From_difficulty ==
    /\ gen_pc = "from_difficulty"
    /\ LET dict_chunk == load(get_word_len_for_difficulty(difficulty))
       IN  /\ word_len' = dict_chunk.word_len
           /\ word_set' = dict_chunk.word_set
    /\ hd_distribution' = get_hamming_distance_distribution(difficulty)
    /\ gen_pc' = "start"
    /\ UNCHANGED <<iterVars, difficulty, hd_distribution_tracker,
                   current_hd_distribution_index, words, goal_word>>
    /\ UNCHANGED outsideGen

NextDifficulty ==
    \/ From_difficulty
    \/ Generate_start
    \/ Generate_step
    \/ Generate_finish

SpecDifficulty == InitDifficulty /\ [][NextDifficulty]_vars

----------------------------------------------------------------------------
(* Properties of the ranked iterator *)

\* the chunk indices (0-based) at case-insensitive distance 0 from the reference
ZeroIndices == {i \in 0..(Len(word_set) - 1) :
                   hamming_dist_ignore_case(word_set[i + 1], cmp_word) = 0}

\* C1: the items produced so far have non-decreasing distances, each distance
\* is in [1, word_len], items of equal distance are in chunk order, and no
\* produced item is at case-insensitive distance 0 from the reference.
C1_RankedOrder ==
    /\ \A j, k \in 1..Len(yielded) :
          j < k => /\ yielded[j].dist <= yielded[k].dist
                   /\ (yielded[j].dist = yielded[k].dist
                         => yielded[j].index < yielded[k].index)
    /\ \A k \in 1..Len(yielded) :
          /\ yielded[k].dist \in 1..word_len
          /\ yielded[k].index \notin ZeroIndices
          /\ hamming_dist_ignore_case(yielded[k].word, cmp_word) # 0

\* the iterator ran dry on a chunk that holds the reference and two entries
\* it had to reorder: the nearer one comes later in the chunk
C1_Witness ==
    /\ last_item = "None"
    /\ ZeroIndices # {}
    /\ \E j, k \in 1..Len(yielded) :
          j < k /\ yielded[j].dist < yielded[k].dist /\ yielded[j].index > yielded[k].index

\* C2: no chunk entry is produced twice, every item carries the entry's own
\* distance, and once the iterator has returned None the items are exactly the
\* chunk entries at distance >= 1, one per occurrence (chunk size minus the
\* number of distance-0 entries).
C2_EachOnce ==
    /\ \A j, k \in 1..Len(yielded) : j # k => yielded[j].index # yielded[k].index
    /\ \A k \in 1..Len(yielded) :
          /\ yielded[k].index \in 0..(Len(word_set) - 1)
          /\ yielded[k].word = word_set[yielded[k].index + 1]
          /\ yielded[k].dist = hamming_dist_ignore_case(yielded[k].word, cmp_word)
    /\ last_item = "None" =>
          /\ {yielded[k].index : k \in 1..Len(yielded)}
                = (0..(Len(word_set) - 1)) \ ZeroIndices
          /\ Len(yielded) = Len(word_set) - Cardinality(ZeroIndices)

\* the iterator ran dry on a chunk with a duplicated entry, an entry at the
\* greatest distance and a distance-0 entry
C2_Witness ==
    /\ last_item = "None"
    /\ Len(word_set) = MaxChunk
    /\ Cardinality(ZeroIndices) = 1
    /\ \E j, k \in 1..Len(yielded) : j # k /\ yielded[j].word = yielded[k].word
    /\ \E k \in 1..Len(yielded) : yielded[k].dist = word_len

----------------------------------------------------------------------------
(* Properties of the string metrics *)

\* the two characters are one letter, in whatever case, or one character
SameLetter(c, d) ==
    \/ c = d
    \/ \E k \in 1..Len(UpperCase) : {c, d} = {UpperCase[k], LowerCase[k]}

\* C29: for two words of one length, matching_char_count_ignore_case is the
\* number of positions that hold the same letter ignoring case,
\* hamming_dist_ignore_case is the length less that number, both give the
\* same for (b, a) as for (a, b), and the distance is 0 exactly when the two
\* words are equal ignoring case.
C29_MetricsAgree ==
    str_pc = "done" =>
        /\ str_matching
               = Cardinality({i \in 1..Len(str_a) : SameLetter(str_a[i], str_b[i])})
        /\ str_hamming = Len(str_a) - str_matching
        /\ matching_char_count_ignore_case(str_b, str_a) = str_matching
        /\ hamming_dist_ignore_case(str_b, str_a) = str_hamming
        /\ str_hamming = 0
               <=> \A i \in 1..Len(str_a) : SameLetter(str_a[i], str_b[i])

\* both metrics were called on two words that differ in the case of one
\* letter and in another position
C29_Witness ==
    /\ str_pc = "done"
    /\ str_a # str_b
    /\ str_matching > 0
    /\ str_hamming > 0
    /\ \E i \in 1..Len(str_a) :
          str_a[i] # str_b[i] /\ SameLetter(str_a[i], str_b[i])

----------------------------------------------------------------------------
(* Properties of generate_words *)

\* the first slot (1-based position in words) of tier i and the slot after its last
TierFirstSlot(i) == 2 + SumNumWords(SubSeq(hd_distribution, 1, i - 1))
TierEndSlot(i) == TierFirstSlot(i) + hd_distribution[i].num_words

\* C3: when generate_words returns, words is the goal followed by tier 0's
\* num_words decoys, then tier 1's, and so on, and every decoy in a slot of
\* tier i is at distance >= tier i's hamming_distance from the goal.
C3_TierOrder ==
    gen_pc = "done" =>
        /\ words[1] = goal_word
        /\ Len(words) = TierEndSlot(4) - 1
        /\ \A i \in 1..4 : \A k \in TierFirstSlot(i)..(TierEndSlot(i) - 1) :
              hamming_dist_ignore_case(words[k], goal_word)
                  >= hd_distribution[i].hamming_distance

\* generate_words returned after discarding a candidate, for a profile with a
\* two-word tier and distinct tier distances
C3_Witness ==
    /\ gen_pc = "done"
    /\ Len(yielded) > Len(words) - 1
    /\ \E i \in 1..4 : hd_distribution[i].num_words = 2
    /\ hd_distribution[1].hamming_distance < hd_distribution[4].hamming_distance

\* the chunk entries (0-based indices) at distance >= d from the goal
Qualifying(d) == {i \in 0..(Len(word_set) - 1) :
                     hamming_dist_ignore_case(word_set[i + 1], goal_word) >= d}

\* Distinct chunk entries can fill every tier slot with an entry that meets the
\* slot's distance: by Hall's theorem, as the sets Qualifying(d) are nested,
\* exactly when every set of tiers finds as many entries at its least distance
\* as it has slots.
EnoughQualifying ==
    \A T \in (SUBSET (1..4)) \ {{}} :
        LET least == CHOOSE d \in {hd_distribution[i].hamming_distance : i \in T} :
                        \A i \in T : d <= hd_distribution[i].hamming_distance
            RECURSIVE Slots(_)
            Slots(U) == IF U = {} THEN 0
                        ELSE LET i == CHOOSE i \in U : TRUE
                             IN  hd_distribution[i].num_words + Slots(U \ {i})
        IN  Cardinality(Qualifying(least)) >= Slots(T)

NonDecreasingDistances ==
    \A i \in 1..3 : hd_distribution[i].hamming_distance <= hd_distribution[i + 1].hamming_distance

\* C4: for a profile with non-decreasing distances and a chunk with enough
\* qualifying entries for the chosen goal, generate_words does not abort and
\* returns exactly 1 + (sum of num_words) words.
C4_FullSize ==
    (gen_pc \in {"break", "done", "panic"} /\ NonDecreasingDistances /\ EnoughQualifying)
        => /\ gen_pc = "done"
           /\ Len(words) = 1 + total_words_in_distribution

\* generate_words returned the full list from a chunk that holds a duplicate of
\* the goal and a candidate it had to discard
C4_Witness ==
    /\ gen_pc = "done"
    /\ NonDecreasingDistances /\ EnoughQualifying
    /\ Len(words) = 1 + total_words_in_distribution
    /\ Len(yielded) > Len(words) - 1
    /\ Len(word_set) > Cardinality(Qualifying(1)) + 1

\* C25: when the ranked stream runs out before every tier is filled (the
\* break of the loop), words is short of 1 + the sum of the tier counts and
\* the next step of generate_words is the failing size assertion: it never
\* returns after the stream ran out.
C25_ShortListAborts ==
    [][ ( /\ gen_pc = "break" =>
                 /\ last_item = "None"
                 /\ current_hd_distribution_index < Len(hd_distribution_tracker)
                 /\ Len(words) < 1 + total_words_in_distribution
                 /\ gen_pc' = "panic"
          /\ gen_pc' = "done" => last_item # "None" ) ]_vars

\* generate_words aborted on the size assertion: the stream ran out after it
\* had given a decoy to the first tier
C25_Witness ==
    /\ gen_pc = "panic"
    /\ last_item = "None"
    /\ Len(words) > 1
    /\ Len(words) < 1 + total_words_in_distribution

\* C28: no caller operates on an empty chunk, as EnglishDictChunk::load fails
\* when it finds no word of the requested length: get_random_word and the
\* ranked iterator, the first things generate_words calls, never run on an
\* empty word_set.
C28_NoEmptyChunkInUse ==
    gen_pc # "start" => word_set # <<>>

\* C30: for each of the five difficulties every tier's distance is at most
\* the word length of the difficulty: generate_words is never asked for a
\* distance that no two words of the loaded chunk's length can have.
C30_ThresholdsFitWordLen ==
    (difficulty \in Difficulty /\ gen_pc # "from_difficulty") =>
        \A i \in 1..Len(hd_distribution) :
            hd_distribution[i].hamming_distance <= word_len

\* generate_words runs for the difficulty whose last tier asks for a distance
\* of the full word length, with a goal word of that length
C30_Witness ==
    /\ difficulty = "VeryEasy"
    /\ gen_pc = "loop"
    /\ hd_distribution[4].hamming_distance = Len(goal_word)
    /\ yielded # <<>>

----------------------------------------------------------------------------
(* Properties of obfuscate_words *)

\* the slice buffer[offset .. offset + len(word)] of the returned buffer
WordInBlob(k) == SubSeq(string_builder, offsets[k] + 1, offsets[k] + Len(obf_words[k]))

\* C5: in the returned (buffer, offsets), every input word k is found in the
\* buffer at offsets[k]: buffer[offsets[k] .. offsets[k] + len(word k)] = word k.
C5_WordsAtOffsets ==
    obf_pc = "done" =>
        /\ Len(offsets) = Len(obf_words)
        /\ \A k \in 1..Len(obf_words) : WordInBlob(k) = obf_words[k]

\* C6: the returned buffer has exactly target_size characters and the returned
\* offsets have one entry per input word.
C6_BufferLength ==
    obf_pc = "done" =>
        /\ Len(string_builder) = target_size
        /\ Len(offsets) = Len(obf_words)

\* obfuscate_words returned for MaxObfWords words with filler around them
C6_Witness ==
    /\ obf_pc = "done"
    /\ Len(obf_words) = MaxObfWords
    /\ target_size = initial_length_from_words + MaxFiller
    /\ offsets[1] > 0

\* C26: a call of obfuscate_words with target_size below the sum of the word
\* lengths aborts: once its first statement has run it stands at the panic,
\* and it never returns.
C26_TooSmallTargetAborts ==
    (target_size < initial_length_from_words /\ obf_pc # "start")
        => obf_pc = "panic"

\* C27: when the words are packed and no filler is inserted yet, the offset
\* paired with input word k is the sum of the lengths of the words after it in
\* the input order: the words lie back to back with the last word at offset 0.
\* (The loop leaves offsets[k] = the sum of the lengths of the last k words,
\* counting k from 0, and the return pairs offsets[k] with word k.)
C27_PackedBehindLaterWords ==
    (obf_pc = "bump" /\ obf_i = 0) =>
        /\ Len(offsets) = Len(obf_words)
        /\ \A k \in 1..Len(obf_words) :
              offsets[k] = SumLen(SubSeq(obf_words, k + 1, Len(obf_words)))

----------------------------------------------------------------------------
(* Properties of the selection cursor *)

\* 0 <= column < pane_width, 0 <= row < pane_height, 0 <= pane < panes, length >= 1
ValidSelection(selection, panes) ==
    /\ 0 <= selection.col_start /\ selection.col_start < dump_width
    /\ 0 <= selection.row_num /\ selection.row_num < dump_height
    /\ 0 <= selection.pane_num /\ selection.pane_num < panes
    /\ selection.len >= 1

\* the linear address pane * (width * height) + row * width + col
Address(selection) ==
    selection.pane_num * (dump_width * dump_height) + selection.row_num * dump_width
        + selection.col_start

\* the laid words (positions in list order) whose range holds the address
WordsAt(address) ==
    {k \in 1..Len(dump_words) :
        word_offsets[k] <= address /\ address < word_offsets[k] + Len(dump_words[k])}

\* C7: refit_selection returns; if no word range holds the cursor's address the
\* selection comes back unchanged, otherwise the result is a cell of the hex
\* dump whose address is the offset of the first word in list order that
\* holds the address, with that word's length.
C7_RefitSnaps ==
    /\ cursor_pc \in {"call", "done"}
    /\ cursor_pc = "done" =>
          LET hits == WordsAt(Address(moved_chunk))
          IN  IF hits = {}
              THEN selected_chunk = moved_chunk
              ELSE LET k == CHOOSE k \in hits : \A j \in hits : k <= j
                   IN  /\ Address(selected_chunk) = word_offsets[k]
                       /\ selected_chunk.len = Len(dump_words[k])
                       /\ ValidSelection(selected_chunk, num_panes)

\* refit_selection went back to the last row of the previous pane for the first
\* of two words that both hold the cursor
C7_Witness ==
    /\ cursor_pc = "done"
    /\ Cardinality(WordsAt(Address(moved_chunk))) = 2
    /\ selected_chunk.pane_num < moved_chunk.pane_num
    /\ selected_chunk.row_num = dump_height - 1

\* C8: every selection that a sequence of movements, each followed by a refit,
\* leads to has its column, row and pane inside the hex dump of num_panes
\* panes and a length >= 1, for every num_panes >= 1.
C8_SelectionStaysValid ==
    ValidSelection(selected_chunk, num_panes)

\* C10: from a valid selection, move_selection with Up or Down leaves pane and
\* column as they were;
\* Up gives row - 1, or pane_height - 1 from row 0; Down gives row + 1, or 0
\* from the last row.
C10_UpDownOnlyRow ==
    [][ ValidSelection(selected_chunk, num_panes) =>
        /\ last_cmd' = "Up" =>
              /\ moved_chunk'.pane_num = selected_chunk.pane_num
              /\ moved_chunk'.col_start = selected_chunk.col_start
              /\ moved_chunk'.row_num = IF selected_chunk.row_num - 1 < 0
                                        THEN dump_height - 1
                                        ELSE selected_chunk.row_num - 1
        /\ last_cmd' = "Down" =>
              /\ moved_chunk'.pane_num = selected_chunk.pane_num
              /\ moved_chunk'.col_start = selected_chunk.col_start
              /\ moved_chunk'.row_num = IF selected_chunk.row_num + 1 >= dump_height
                                        THEN 0
                                        ELSE selected_chunk.row_num + 1 ]_vars

\* an Up from row 0 wrapped to the last row, into a word the refit then snapped to
C10_Witness ==
    /\ last_cmd = "Up"
    /\ moved_chunk.row_num = dump_height - 1
    /\ selected_chunk.col_start # moved_chunk.col_start
    /\ selected_chunk.len > 1

\* C11: from a valid selection, move_selection with Right leaves the row as it
\* was and adds the selection length to the column; when that reaches
\* pane_width the column is 0 and the pane the next one, pane 0 after the last.
C11_RightSkipsSelection ==
    [][ (ValidSelection(selected_chunk, num_panes) /\ last_cmd' = "Right") =>
        /\ moved_chunk'.row_num = selected_chunk.row_num
        /\ IF selected_chunk.col_start + selected_chunk.len < dump_width
           THEN /\ moved_chunk'.col_start = selected_chunk.col_start + selected_chunk.len
                /\ moved_chunk'.pane_num = selected_chunk.pane_num
           ELSE /\ moved_chunk'.col_start = 0
                /\ moved_chunk'.pane_num = IF selected_chunk.pane_num + 1 = num_panes
                                           THEN 0
                                           ELSE selected_chunk.pane_num + 1 ]_vars

\* a Right past the end of a row of the last of two panes came out on column 0
\* of pane 0
C11_Witness ==
    /\ last_cmd = "Right"
    /\ num_panes = 2
    /\ moved_chunk.col_start = 0
    /\ moved_chunk.pane_num = 0
    /\ moved_chunk.row_num > 0

C13_LengthReset ==
    last_cmd \in Movement =>
        /\ cursor_pc = "call"
        /\ moved_chunk.len = 1
        /\ LET hits == WordsAt(Address(moved_chunk))
           IN  IF hits = {}
               THEN selected_chunk.len = 1
               ELSE selected_chunk.len =
                        Len(dump_words[CHOOSE k \in hits : \A j \in hits : k <= j])

\* a Right landed on the filler cell just past a word: the selection is one
\* cell long again
C13_Witness ==
    /\ last_cmd = "Right"
    /\ selected_chunk.len = 1
    /\ WordsAt(Address(moved_chunk)) = {}
    /\ WordsAt(Address(moved_chunk) - 1) # {}
    /\ moved_chunk.col_start > 0

\* the cursor is on row 0 of pane 1, in the first word that holds it, and that
\* word starts on the last row of pane 0
CrossesPaneAndRow ==
    /\ cursor_pc = "done"
    /\ moved_chunk.pane_num = 1
    /\ moved_chunk.row_num = 0
    /\ LET hits == WordsAt(Address(moved_chunk))
       IN  /\ hits # {}
           /\ word_offsets[CHOOSE k \in hits : \A j \in hits : k <= j] < max_bytes_in_pane

\* the selection lies on the start of the first word that holds the cursor
\* refit_selection was called with, and is as long as that word
RelocatedToWordStart ==
    LET hits == WordsAt(Address(moved_chunk))
        first == CHOOSE k \in hits : \A j \in hits : k <= j
    IN  /\ ValidSelection(selected_chunk, num_panes)
        /\ Address(selected_chunk) = word_offsets[first]
        /\ selected_chunk.len = Len(dump_words[first])

\* C14 as stated: when the cursor lands in a word that starts on the last row
\* of the previous pane and goes on on row 0 of the current pane,
\* refit_selection does not relocate the selection to the start of the word.
C14_CrossPaneNotRelocated ==
    CrossesPaneAndRow => ~RelocatedToWordStart

\* C14 amended: when the cursor lands in a word that starts on the last row of
\* the previous pane and goes on on row 0 of the current pane, refit_selection
\* relocates the selection to the start of the word: the pane before, its last
\* row, with the length of the word.
C14_CrossPaneRelocated ==
    CrossesPaneAndRow =>
        /\ RelocatedToWordStart
        /\ selected_chunk.pane_num = moved_chunk.pane_num - 1
        /\ selected_chunk.row_num = dump_height - 1

\* refit_selection was called on column 1 of row 0 of pane 1, in a word that
\* starts two cells before the end of pane 0
C14_Witness ==
    /\ CrossesPaneAndRow
    /\ moved_chunk.col_start = 1
    /\ selected_chunk.pane_num = 0
    /\ selected_chunk.col_start = dump_width - 2

----------------------------------------------------------------------------
(* Properties of the game loop *)

\* C9: in the game no refit underflows and no assert_eq! of try_select_word
\* fails, and once the first selection is refitted, whenever the address of
\* the cursor lies in the range of a laid word it is that word's offset and
\* the selection is as long as that word.
C9_CursorOnWordStart ==
    /\ game_pc \in {"start", "loop", "exit", "quit"}
    /\ game_pc \in {"loop", "exit", "quit"} =>
          \A k \in WordsAt(Address(selected_chunk)) :
              /\ Address(selected_chunk) = word_offsets[k]
              /\ selected_chunk.len = Len(dump_words[k])

\* a decoy that lies across the boundary of the two panes was selected, and
\* denied, with the cursor on row 0 of pane 1 refitted back to its start
C9_Witness ==
    /\ game_pc = "loop"
    /\ denied_selections # <<>>
    /\ \E k \in WordsAt(Address(selected_chunk)) :
          /\ denied_selections[Len(denied_selections)][1] = dump_words[k]
          /\ word_offsets[k] < max_bytes_in_pane
          /\ word_offsets[k] + Len(dump_words[k]) > max_bytes_in_pane

\* total_attempts of render_game_window
total_attempts == Len(denied_selections) + (IF accepted_selection # <<>> THEN 1 ELSE 0)

\* C23: in run_game at most MAX_ATTEMPTS selections are ever denied, and the
\* denied selections plus the accepted one, if there is one, are at most
\* MAX_ATTEMPTS: the attempts left that render_game_window draws never go
\* below zero, and the game is never won with MAX_ATTEMPTS selections denied.
C23_AttemptsBounded ==
    /\ Len(denied_selections) <= MAX_ATTEMPTS
    /\ total_attempts <= MAX_ATTEMPTS
    /\ MAX_ATTEMPTS - total_attempts >= 0
    /\ ~(accepted_selection # <<>> /\ Len(denied_selections) = MAX_ATTEMPTS)

\* the solution was accepted on the last attempt, after MAX_ATTEMPTS - 1
\* denied selections
C23_Witness ==
    /\ accepted_selection = <<solution>>
    /\ Len(denied_selections) = MAX_ATTEMPTS - 1
    /\ game_over_timer = "Some"

----------------------------------------------------------------------------
(* Properties of filter_matching_passwords *)

\* the elements of a sequence
ToSet(seq) == {seq[i] : i \in 1..Len(seq)}

\* how often w occurs in a sequence
Occurrences(seq, w) == Cardinality({i \in 1..Len(seq) : seq[i] = w})

\* the candidate has as many matching characters with the guess word as the
\* guess says
Consistent(p, guess) ==
    matching_char_count_ignore_case(p, guess.word) = guess.char_count

\* C15: when a call of filter_matching_passwords returns, every candidate
\* whose matching character count with the guess word equals the guess's
\* count occurs in the result as often as in the argument, and no other
\* candidate occurs in it.
C15_ExactlyTheMatching ==
    filter_pc \in {"second", "done"} =>
        LET guess == guesses[Len(guesses)]
        IN  \A w \in ToSet(passwords_arg) \cup ToSet(passwords) :
                Occurrences(passwords, w) =
                    IF Consistent(w, guess) THEN Occurrences(passwords_arg, w) ELSE 0

\* a call kept a candidate that matches the guess in another letter case, and
\* dropped another
C15_Witness ==
    /\ filter_pc = "second"
    /\ guesses[1].char_count = 5
    /\ \E i \in 1..Len(passwords) : passwords[i] # guesses[1].word
    /\ Len(passwords) < Len(passwords_arg)

\* C16: when a call of filter_matching_passwords returns, the result is the
\* argument without the dropped candidates, the kept ones in the order they
\* had in the argument.
C16_OrderKept ==
    filter_pc \in {"second", "done"} =>
        passwords = SelectSeq(passwords_arg,
                              LAMBDA p : Consistent(p, guesses[Len(guesses)]))

\* C17: after the calls with G1 and then G2, the result holds the candidates
\* of the first list that are consistent with both guesses, which are also
\* those the calls in the other order return; when G2 is G1 the second call
\* drops nothing.
C17_IdempotentCommutative ==
    filter_pc = "done" =>
        /\ ToSet(passwords) =
              {p \in ToSet(pwd_start) : Consistent(p, guesses[1])
                                        /\ Consistent(p, guesses[2])}
        /\ ToSet(passwords) =
              ToSet(filter_matching_passwords(
                        guesses[1], filter_matching_passwords(guesses[2], pwd_start)))
        /\ guesses[1] = guesses[2] => ToSet(passwords) = ToSet(passwords_arg)

\* two different guesses each dropped a candidate and one candidate is left
C17_Witness ==
    /\ filter_pc = "done"
    /\ guesses[1] # guesses[2]
    /\ passwords # <<>>
    /\ Len(passwords) < Len(passwords_arg)
    /\ Len(passwords_arg) < Len(pwd_start)

\* the same guess was applied twice to a list it drops a candidate from
C17_WitnessSameGuess ==
    /\ filter_pc = "done"
    /\ guesses[1] = guesses[2]
    /\ passwords # <<>>
    /\ Len(passwords_arg) < Len(pwd_start)

----------------------------------------------------------------------------
(* Properties of the solver's input loop *)

\* the passwords of the list that agree with every count entered: for each
\* count buffer that is not empty, as many matching characters with that
\* buffer's word as the decimal number the buffer shows
AgreeWithCounts(pw, bufs) ==
    {p \in ToSet(pw) :
        \A i \in 1..Len(pw) :
            bufs[i] # <<>> =>
                matching_char_count_ignore_case(p, pw[i]) =
                    (IF Len(bufs[i]) = 1 THEN DigitValue[bufs[i][1]]
                     ELSE 10 * DigitValue[bufs[i][1]] + DigitValue[bufs[i][2]])}

\* C18 as stated: once the loop runs, the set of remaining candidates after a
\* pass of the loop is a subset of the set before it.
C18_OnlyShrinks ==
    [][ (solver_pc = "loop" =>
            ToSet(filtered_input_passwords') \subseteq ToSet(filtered_input_passwords)) ]_vars

\* C18 amended: the validated list never changes in the loop; a pass without
\* refresh leaves the remaining candidates as they are and a pass with refresh
\* makes them the passwords of the validated list, in any order and as often
\* as there, that agree with every count entered at that moment: a subset of
\* the validated list, which re-grows when a count was erased or replaced.
C18_RecomputedFromFullList ==
    [][ (solver_pc \in {"enter", "loop"} =>
          /\ input_passwords' = input_passwords
          /\ ~refresh_filtered_passwords =>
                filtered_input_passwords' = filtered_input_passwords
          /\ refresh_filtered_passwords =>
                /\ ToSet(filtered_input_passwords') =
                       AgreeWithCounts(input_passwords, number_input_buffers)
                /\ \A p \in ToSet(filtered_input_passwords') :
                       Occurrences(filtered_input_passwords', p) =
                           Occurrences(input_passwords, p)) ]_vars

\* every count is erased again while a candidate is still shown as eliminated:
\* the refresh that is due brings it back
C18_Witness ==
    /\ solver_pc = "loop"
    /\ refresh_filtered_passwords
    /\ \A i \in 1..Len(number_input_buffers) : number_input_buffers[i] = <<>>
    /\ filtered_input_passwords # <<>>
    /\ Len(filtered_input_passwords) < Len(input_passwords)

\* C19 as stated: a pass of the loop takes no digit into the count buffer of a
\* word that is not among the remaining candidates of that pass.
C19_EliminatedWordRejected ==
    [][ (solver_pc = "loop" =>
          \A i \in 1..Len(input_passwords) :
              input_passwords[i] \notin ToSet(filtered_input_passwords') =>
                  \/ number_input_buffers'[i] = number_input_buffers[i]
                  \/ Len(number_input_buffers'[i]) < Len(number_input_buffers[i])) ]_vars

\* C19 amended: a digit typed while the cursor is on a password is taken into
\* that password's count buffer whether or not the word is among the remaining
\* candidates: the buffer is first emptied when the cursor has moved since the
\* last digit, and gets the digit unless it already holds two.
C19_DigitTakenOnAnyWord ==
    [][ ((solver_pc \in {"enter", "loop"} /\ ch' \in Digits
         /\ menu_cursor < Len(input_passwords)) =>
          LET before == IF clear_on_next_number_input THEN <<>>
                        ELSE number_input_buffers[menu_cursor + 1]
          IN  /\ number_input_buffers'[menu_cursor + 1] =
                     IF Len(before) < 2 THEN before \o <<ch'>> ELSE before
              /\ \A i \in 1..Len(input_passwords) :
                     i # menu_cursor + 1 =>
                         number_input_buffers'[i] = number_input_buffers[i]) ]_vars

\* a digit was taken for a word that is not among the remaining candidates,
\* some of which are left
C19_Witness ==
    /\ solver_pc = "loop"
    /\ ch \in Digits
    /\ menu_cursor < Len(input_passwords)
    /\ input_passwords[menu_cursor + 1] \notin ToSet(filtered_input_passwords)
    /\ filtered_input_passwords # <<>>
    /\ Len(number_input_buffers[menu_cursor + 1]) = 2

\* C20 as stated: once at most one candidate remains the next pass of the
\* loop ends the session and takes no further guess.
C20_StopsWhenSolved ==
    [][ ((solver_pc = "loop" /\ Len(filtered_input_passwords) <= 1) =>
          /\ solver_pc' = "exit"
          /\ number_input_buffers' = number_input_buffers) ]_vars

\* C20 amended: the loop does not stop because at most one candidate remains:
\* a pass ends the session exactly when its key is Esc, or Enter with the
\* cursor on the Back button, however many candidates remain.
C20_StopsOnlyOnEscOrBack ==
    [][ (solver_pc \in {"enter", "loop"} =>
          (solver_pc' = "exit" <=>
              \/ ch' = "ESC"
              \/ ch' = "ENTER" /\ menu_cursor = Len(input_passwords))) ]_vars

\* the loop runs on with one candidate left of several, and has just taken a
\* digit
C20_Witness ==
    /\ solver_pc = "loop"
    /\ Len(input_passwords) > 1
    /\ Len(filtered_input_passwords) = 1
    /\ ch \in Digits
    /\ menu_cursor < Len(input_passwords)
    /\ number_input_buffers[menu_cursor + 1] # <<>>
    /\ ~clear_on_next_number_input

----------------------------------------------------------------------------
(* Properties of the solver's start-up *)

\* the words of the dictionary chunk of the length of word
InDictionary(word) == word \in ToSet(DictFile(Len(word)))

\* C21: validate_input_passwords returns InputEmpty for an empty list;
\* otherwise InvalidPasswordLengthFound if an entry's length differs from the
\* first entry's, whether or not an entry is missing from the dictionary;
\* otherwise PasswordNotFoundInEnglishDict if an entry is not a word of the
\* dictionary chunk of that length; otherwise Ok with the list as it was
\* given.  The assert_eq! of is_word never fails.
C21_ValidationResult ==
    validation # NoResult =>
        LET one_length == \A i \in 1..Len(pwds) : Len(pwds[i]) = Len(pwds[1])
            all_words == \A i \in 1..Len(pwds) : InDictionary(pwds[i])
        IN  /\ validation.kind # "panic"
            /\ validation.kind = "InputEmpty" <=> pwds = <<>>
            /\ validation.kind = "InvalidPasswordLengthFound"
                   <=> (pwds # <<>> /\ ~one_length)
            /\ validation.kind = "PasswordNotFoundInEnglishDict"
                   <=> (pwds # <<>> /\ one_length /\ ~all_words)
            /\ validation.kind = "Ok"
                   <=> (pwds # <<>> /\ one_length /\ all_words)
            /\ validation.kind = "Ok" => validation.pwds = pwds

\* a list whose first entry is no dictionary word and whose entries differ in
\* length was rejected for the lengths
C21_Witness ==
    /\ validation.kind = "InvalidPasswordLengthFound"
    /\ Len(pwds) >= 2
    /\ ~InDictionary(pwds[1])
    /\ start_pc = "panic_validation"

\* the start-up is past the membership check of lines 86-90
PastCheck == start_pc \in {"panic_unknown_guess", "filter", "menu", "loop",
                           "panic_empty_list"}

\* C22: every guess of the command line is looked up in the full validated
\* list before any filter is applied: the session aborts exactly when the
\* word of some guess is not in that list (so a word that an earlier guess
\* eliminates is still accepted), and when it aborts the list has not been
\* filtered.
C22_GuessesCheckedFirst ==
    /\ start_pc \in {"guesses", "check", "panic_unknown_guess", "filter"}
           => input_passwords = pwds
    /\ PastCheck =>
           (start_pc = "panic_unknown_guess"
               <=> \E k \in 1..Len(start_known_guesses) :
                       start_known_guesses[k].word \notin ToSet(pwds))

\* two guesses were accepted and the list was filtered although the first
\* guess eliminates the word of the second
C22_Witness ==
    /\ start_pc \in {"menu", "loop", "panic_empty_list"}
    /\ Len(start_known_guesses) = 2
    /\ start_known_guesses[2].word
           \notin ToSet(filter_matching_passwords(start_known_guesses[1], pwds))

----------------------------------------------------------------------------
(* The single pass of generate_words over the ranked stream *)

\* the decoys pushed so far: words without the goal in its first slot
Decoys(ws) == {ws[k] : k \in 2..Len(ws)}

\* C31: generate_words walks the ranked stream once: the candidate a loop
\* iteration draws is compared with the tier current at that moment only, it is
\* pushed when its distance reaches that tier's threshold and dropped otherwise,
\* a dropped candidate is never drawn again and never enters words later, and
\* the decoys keep the order of the stream (non-decreasing distance to the goal).
C31_SinglePass ==
    [][ ( /\ (gen_pc = "loop" /\ yielded' # yielded) =>
                 LET y == yielded'[Len(yielded')]
                     tier == hd_distribution_tracker[current_hd_distribution_index + 1]
                 IN  /\ yielded' = Append(yielded, y)
                     /\ \A a \in 1..Len(yielded) : yielded[a].index # y.index
                     /\ \A a \in 1..Len(yielded) : yielded[a].dist <= y.dist
                     /\ IF y.dist >= tier.hamming_distance
                        THEN words' = Append(words, y.word)
                        ELSE words' = words /\ y.word \notin Decoys(words')
          /\ (gen_pc = "loop" /\ yielded' = yielded) => words' = words
          /\ \A a \in 1..Len(yielded) :
                 yielded[a].word \notin Decoys(words) => yielded[a].word \notin Decoys(words')
          /\ \A k, l \in 2..Len(words') :
                 k < l => hamming_dist_ignore_case(words'[k], goal_word')
                              <= hamming_dist_ignore_case(words'[l], goal_word') ) ]_vars

\* generate_words returned a full list although it had dropped a candidate that
\* a tier after the one current at that moment would have taken
C31_Witness ==
    /\ gen_pc = "done"
    /\ \E a \in 1..Len(yielded) :
          /\ yielded[a].word \notin Decoys(words)
          /\ \E i \in 2..4 : yielded[a].dist >= hd_distribution[i].hamming_distance
          /\ \E b \in (a + 1)..Len(yielded) : yielded[b].word \in Decoys(words)

----------------------------------------------------------------------------
(* The ranked iterator runs dry *)

\* the candidates the iterator has examined: each pass of the loop of next()
\* moves (next_candidate_distance, next_item_candidate_index) one entry on, in
\* passes over the chunk that begin at distance 1
Examined == (next_candidate_distance - 1) * Len(word_set) + next_item_candidate_index

\* C32: on a non-empty chunk of N words of length L every next() returns (Some
\* or None, no panic) after examining at least one candidate, the iterator has
\* examined L*N candidates when it returns None and never more, and after a
\* None every later call returns None again and yields nothing.
C32_FiniteSingleUse ==
    [][ ( Len(word_set) > 0 =>
            /\ last_item' \in {"Some", "None"}
            /\ Examined' <= word_len * Len(word_set)
            /\ last_item' = "Some" =>
                  /\ Examined' > Examined
                  /\ Len(yielded') = Len(yielded) + 1
            /\ last_item' = "None" =>
                  /\ Examined' = word_len * Len(word_set)
                  /\ yielded' = yielded
            /\ last_item = "None" => last_item' = "None" ) ]_vars

\* the iterator returned None on a full chunk after it had yielded an entry
\* in the last pass and skipped another
C32_Witness ==
    /\ last_item = "None"
    /\ Len(word_set) = MaxChunk
    /\ Examined = word_len * Len(word_set)
    /\ Len(yielded) \in 1..(MaxChunk - 1)
    /\ \E k \in 1..Len(yielded) : yielded[k].dist = word_len

----------------------------------------------------------------------------
(* The outcome of a Select in run_game *)

\* the word under the cursor, as the Select handler asks for it
SelectedWord == try_select_word(selected_chunk, dump_words, word_offsets)

\* C33: while the game is not over a Select on a word has exactly one outcome:
\* the solution becomes the accepted selection and the denied list stays, any
\* other word appends one entry (word, matching_char_count_ignore_case(solution,
\* word)) to the denied list and nothing is accepted, also for a word already
\* in the list; the attempt record changes in no other way, and every recorded
\* count is below the word length.
C33_SelectOutcome ==
    [][ ( /\ (denied_selections' # denied_selections
                 \/ accepted_selection' # accepted_selection) =>
                 /\ game_pc = "loop"
                 /\ ~is_game_over(denied_selections, accepted_selection)
                 /\ SelectedWord.kind = "Some"
                 /\ IF SelectedWord.word = solution
                    THEN /\ accepted_selection' = <<solution>>
                         /\ denied_selections' = denied_selections
                    ELSE /\ accepted_selection' = accepted_selection
                         /\ denied_selections' =
                               Append(denied_selections,
                                      <<SelectedWord.word,
                                        matching_char_count_ignore_case(
                                            solution, SelectedWord.word)>>)
          /\ \A k \in 1..Len(denied_selections') :
                 /\ denied_selections'[k][1] # solution'
                 /\ denied_selections'[k][2] < Len(denied_selections'[k][1]) ) ]_vars

\* the solution was accepted after the same decoy had been denied twice
C33_Witness ==
    /\ accepted_selection = <<solution>>
    /\ Len(denied_selections) = 2
    /\ denied_selections[1] = denied_selections[2]
    /\ denied_selections[1][2] > 0

----------------------------------------------------------------------------
(* What leaves the attempt record of run_game alone *)

\* C34: the denied list, the accepted selection and the game-over timer are
\* changed by no step that moves the cursor, by no step taken while the cursor
\* is on no word and by no step taken once the game is over (whatever the
\* input), and the cursor still changes once the game is over, by a movement
\* and its refit as before.
C34_RecordFrame ==
    [][ ( /\ (\/ game_over_timer = "Some"
              \/ is_game_over(denied_selections, accepted_selection)
              \/ selected_chunk' # selected_chunk
              \/ SelectedWord.kind = "None") =>
                 UNCHANGED <<denied_selections, accepted_selection, game_over_timer>>
          /\ (game_over_timer = "Some" /\ selected_chunk' # selected_chunk) =>
                 /\ \E movement \in Movement :
                        selected_chunk' =
                            refit_selection(move_selection(selected_chunk, movement, 2),
                                            dump_words, word_offsets)
                 /\ game_pc' \in {"loop", "exit"} ) ]_vars

\* the game is over with a full denied list and the cursor has since left the
\* word of the last attempt for a cell that holds no word
C34_Witness ==
    /\ game_pc = "loop"
    /\ game_over_timer = "Some"
    /\ Len(denied_selections) = MAX_ATTEMPTS
    /\ SelectedWord.kind = "None"

----------------------------------------------------------------------------
(* The offsets of words of one length *)

\* all the words given to obfuscate_words have the length of the first
OneLength == \A k \in 1..Len(obf_words) : Len(obf_words[k]) = Len(obf_words[1])

\* C35: for words of one length L and target_size >= n*L, from the packing
\* on, after every filler step and at the return, the offsets are strictly
\* increasing in input order with at least L between two neighbours, the first
\* is >= 0 and the last word ends inside the buffer: the word ranges are
\* pairwise disjoint and lie in [0, target_size).
C35_RangesDisjoint ==
    (/\ OneLength
     /\ Len(obf_words) >= 1
     /\ target_size >= Len(obf_words) * Len(obf_words[1])
     /\ obf_pc # "start") =>
        /\ obf_pc \notin {"panic", "diverge"}
        /\ Len(offsets) = Len(obf_words)
        /\ offsets[1] >= 0
        /\ \A k \in 1..(Len(offsets) - 1) : offsets[k + 1] - offsets[k] >= Len(obf_words[1])
        /\ offsets[Len(offsets)] + Len(obf_words[1]) <= target_size
        /\ \A j, k \in 1..Len(offsets) :
              j # k => (\/ offsets[j] + Len(obf_words[j]) <= offsets[k]
                        \/ offsets[k] + Len(obf_words[k]) <= offsets[j])

\* obfuscate_words returned for MaxObfWords words of length 2 with filler
\* before the first word, between two words and behind the last one
C35_Witness ==
    /\ obf_pc = "done"
    /\ OneLength
    /\ Len(obf_words) = MaxObfWords
    /\ Len(obf_words[1]) = 2
    /\ offsets[1] > 0
    /\ \E k \in 1..(Len(offsets) - 1) : offsets[k + 1] - offsets[k] > 2
    /\ offsets[Len(offsets)] + 2 < target_size

----------------------------------------------------------------------------
(* refit_selection applied twice *)

\* no two of the laid words share a cell, in whatever order they are listed
PairwiseDisjoint ==
    \A j, k \in 1..Len(dump_words) :
        j # k => (\/ word_offsets[j] + Len(dump_words[j]) <= word_offsets[k]
                  \/ word_offsets[k] + Len(dump_words[k]) <= word_offsets[j])

\* C36: for a layout of pairwise disjoint words no longer than a row,
\* refit_selection applied to its own result returns that result: the second
\* call neither underflows nor changes pane, row, column or length.
C36_RefitIdempotent ==
    (PairwiseDisjoint /\ LayoutOk(dump_words, word_offsets)) =>
        /\ cursor_pc \in {"call", "done", "again"}
        /\ cursor_pc = "again" => selected_chunk = moved_chunk

\* the second call was made on a selection that the first call had taken back
\* to the last row of the previous pane, with another word laid before it
C36_Witness ==
    /\ cursor_pc = "again"
    /\ PairwiseDisjoint
    /\ Len(dump_words) = MaxLaidWords
    /\ selected_chunk.pane_num = 0
    /\ selected_chunk.row_num = dump_height - 1
    /\ selected_chunk.len > 1
    /\ cursor_index(selected_chunk) + selected_chunk.len > max_bytes_in_pane

----------------------------------------------------------------------------
(* The unsigned arithmetic of refit_selection *)

\* C37: for offsets >= 0 and words no longer than a row, refit_selection never
\* underflows: the call returns, the cursor's offset into its word is in
\* [0, pane_width - 1] so that pane_width - offset >= 1, a cursor on row 0 of
\* pane 0 takes the same-row branch, the pane is decremented only from a pane
\* >= 1, and the returned pane, row and column are >= 0 with the column below
\* pane_width.
C37_NoUnderflow ==
    LayoutOk(dump_words, word_offsets) =>
        /\ cursor_pc \notin {"panic", "wrapped"}
        /\ (cursor_pc = "done" /\ WordsAt(Address(moved_chunk)) # {}) =>
              LET hits == WordsAt(Address(moved_chunk))
                  k == CHOOSE k \in hits : \A j \in hits : k <= j
                  intra == Address(moved_chunk) - word_offsets[k]
              IN  /\ intra >= 0
                  /\ dump_width - intra >= 1
                  /\ (moved_chunk.row_num = 0 /\ moved_chunk.pane_num = 0) =>
                        /\ intra <= moved_chunk.col_start
                        /\ selected_chunk.row_num = 0
                        /\ selected_chunk.pane_num = 0
                        /\ selected_chunk.col_start = moved_chunk.col_start - intra
                  /\ selected_chunk.pane_num # moved_chunk.pane_num =>
                        /\ moved_chunk.pane_num >= 1
                        /\ selected_chunk.pane_num = moved_chunk.pane_num - 1
                  /\ selected_chunk.pane_num >= 0
                  /\ selected_chunk.row_num >= 0
                  /\ selected_chunk.col_start \in 0..(dump_width - 1)

\* refit_selection decremented the pane for a cursor on the last character of
\* a word as long as a row is wide: pane_width - offset is 1
C37_Witness ==
    /\ cursor_pc = "done"
    /\ moved_chunk.pane_num = 1
    /\ moved_chunk.row_num = 0
    /\ selected_chunk.pane_num = 0
    /\ selected_chunk.len = dump_width
    /\ Address(moved_chunk) - Address(selected_chunk) = dump_width - 1

----------------------------------------------------------------------------
(* Filtering with truthful guesses *)

\* the guess tells the truth about the hidden solution s: its word has the
\* length of s and its count is the matching character count of s and the word
Truthful(s, guess) ==
    /\ Len(guess.word) = Len(s)
    /\ guess.char_count = matching_char_count_ignore_case(s, guess.word)

\* C38: for a candidate list of words of one length that holds the hidden
\* solution s, as long as every guess applied so far is truthful about s no
\* call of filter_matching_passwords aborts or drops s: s occurs in the list
\* as often as at the start, and the list is not empty.
C38_TruthfulKeepsSolution ==
    \A s \in ToSet(pwd_start) :
        (/\ \A p \in ToSet(pwd_start) : Len(p) = Len(s)
         /\ \A i \in 1..Len(guesses) : Truthful(s, guesses[i])) =>
            /\ filter_pc # "panic"
            /\ Occurrences(passwords, s) = Occurrences(pwd_start, s)
            /\ passwords # <<>>

\* two truthful guesses about a solution, with words other than the solution,
\* have each dropped a candidate and the solution alone is left
C38_Witness ==
    /\ filter_pc = "done"
    /\ Len(pwd_start) = MaxCandidates
    /\ \E s \in ToSet(pwd_start) :
          /\ \A i \in 1..2 : Truthful(s, guesses[i]) /\ guesses[i].word # s
          /\ passwords = <<s>>
    /\ Len(passwords_arg) < Len(pwd_start)
    /\ Len(passwords) < Len(passwords_arg)

----------------------------------------------------------------------------
(* The state of the solver's loop after any keys *)

\* C39: after any sequence of keys in the solver's loop, menu_cursor is in
\* [0, number of passwords] (the last value is the Back button, so the
\* assert_eq! of the cursor rendering holds), there is one count buffer per
\* password and each holds at most 2 characters, all decimal digits, so that a
\* non-empty buffer parses to a count, and the loop has ended only after Esc,
\* or after Enter with the cursor on the Back button.
C39_LoopStateSafe ==
    /\ solver_pc \in {"enter", "loop", "exit"}
    /\ menu_cursor \in 0..Len(input_passwords)
    /\ (~(menu_cursor < Len(input_passwords))) => menu_cursor = Len(input_passwords)
    /\ Len(number_input_buffers) = Len(input_passwords)
    /\ \A i \in 1..Len(number_input_buffers) :
          /\ Len(number_input_buffers[i]) <= 2
          /\ \A k \in 1..Len(number_input_buffers[i]) :
                number_input_buffers[i][k] \in DOMAIN DigitValue
          /\ number_input_buffers[i] # <<>> =>
                /\ ParseOk(number_input_buffers[i])
                /\ parse(number_input_buffers[i]) \in 0..99
    /\ solver_pc = "exit" =>
          \/ ch = "ESC"
          \/ ch = "ENTER" /\ menu_cursor = Len(input_passwords)

\* the loop ended by Enter on the Back button below the longest list, with a
\* full count buffer that no further digit could extend and no candidate left
C39_Witness ==
    /\ solver_pc = "exit"
    /\ ch = "ENTER"
    /\ menu_cursor = Len(input_passwords)
    /\ Len(input_passwords) > 2
    /\ \E i \in 1..Len(number_input_buffers) :
          /\ Len(number_input_buffers[i]) = 2
          /\ parse(number_input_buffers[i]) > Len(input_passwords[i])
    /\ filtered_input_passwords = <<>>

----------------------------------------------------------------------------
(* Every laid word can be selected *)

\* the selection after one movement input of the game loop
MoveAndRefit(selection, movement) ==
    refit_selection(move_selection(selection, movement, 2), dump_words, word_offsets)

\* the selections that movement inputs lead to from those of frontier, seen
\* being the ones found so far
RECURSIVE ReachableBy(_, _)
ReachableBy(seen, frontier) ==
    IF frontier = {} THEN seen
    ELSE LET next == {MoveAndRefit(s, m) : s \in frontier, m \in Movement} \ seen
         IN  ReachableBy(seen \cup next, next)

\* the selection run_game enters its loop with
InitialSelection == refit_selection(SelectedChunk(0, 0, 0, 1), dump_words, word_offsets)

\* C40: simple_shuffle keeps the words it is given (v is a permutation of them
\* after every swap, and so are the laid words), so the solution is one of the
\* laid words; and from the selection the loop starts with, every laid word has
\* a selection reachable by Up, Down, Left and Right on which try_select_word
\* returns it.
C40_Winnable ==
    /\ game_pc \in {"shuffle", "start", "loop"}
    /\ Len(shuffle_v) = Len(unshuffled_words)
    /\ \A w \in ToSet(unshuffled_words) \cup ToSet(shuffle_v) :
          Occurrences(shuffle_v, w) = Occurrences(unshuffled_words, w)
    /\ game_pc # "shuffle" =>
          /\ dump_words = shuffle_v
          /\ solution \in ToSet(dump_words)
    /\ (game_pc = "loop" /\ selected_chunk = InitialSelection) =>
          LET reachable == ReachableBy({selected_chunk}, {selected_chunk})
          IN  \A k \in 1..Len(dump_words) :
                \E s \in reachable :
                    /\ cursor_index(s) = word_offsets[k]
                    /\ try_select_word(s, dump_words, word_offsets)
                           = [kind |-> "Some", word |-> dump_words[k]]

\* the shuffle has moved the solution out of the first place, and movements
\* have brought the cursor from another cell onto the solution, which lies
\* across the boundary of the two panes
C40_Witness ==
    /\ game_pc = "loop"
    /\ dump_words[1] # solution
    /\ selected_chunk # InitialSelection
    /\ try_select_word(selected_chunk, dump_words, word_offsets)
          = [kind |-> "Some", word |-> solution]
    /\ cursor_index(selected_chunk) < max_bytes_in_pane
    /\ cursor_index(selected_chunk) + selected_chunk.len > max_bytes_in_pane

====
